---- MODULE Spec2Model ----
(***************************************************************************)
(* State-machine model of crossfont's rasterizers: the FreeType/Fontconfig *)
(* backend (src/ft/mod.rs), the CoreText backend (src/darwin/mod.rs) and   *)
(* the DirectWrite backend (src/directwrite/mod.rs), with the shared       *)
(* FontKey allocator of src/lib.rs.                                        *)
(*                                                                         *)
(* The native libraries (Fontconfig, FreeType, CoreText, DirectWrite) are  *)
(* the environment: the installed fonts, their declared character sets,    *)
(* their real glyph tables and their pattern hashes are fixed tables, and  *)
(* a native rasterization may fail on any call.                            *)
(***************************************************************************)
EXTENDS Integers, Sequences, FiniteSets, TLC

\* ------------------------------------------------------------------ bounds
\* Size values offered to load_font / get_glyph are 1..MaxSize.
MaxSize == 1
\* Device pixel ratios offered to new / update_dpr are 1..MaxDpr.
MaxDpr == 2
\* load_font creates a new primary font only while fewer than MaxFonts exist.
MaxFonts == 2
\* The clock runs from 0 to MaxClock seconds after construction.
MaxClock == 4
\* FreeType bitmaps have 1..MaxRows rows and widths built from 1..MaxWidth.
MaxRows == 4
MaxWidth == 4
\* A bitmap's pitch exceeds the bytes of a row by those of 0..MaxPad pixels
\* (eight pixels for Mono).
MaxPad == 1
\* Requested pixel sizes are 1..MaxRequest.
MaxRequest == 5
\* Point sizes given to Size::new reach from -MaxPts to MaxPts.
MaxPts == 20000
\* The pixel size of the one strike of the color bitmap faces.
Strike == 4

\* ------------------------------------------------------- program constants
\* const MISSING_GLYPH_INDEX: u32 = 0
MISSING_GLYPH_INDEX == 0
\* const RELOAD_DELAY: Duration = Duration::from_secs(2)
RELOAD_DELAY == 2
\* FontKey { token: u32 }
TokenBits == 32
\* static TOKEN: AtomicUsize (64-bit target)
UsizeBits == 64
\* Size::factor() = 2.0
Size_factor == 2
\* Size(i16): the largest stored value
I16Max == 32767

\* Unsigned machine words are kept as tuples of limbs, most significant
\* first; a limb is half a u32, so a u32 is <<hi, lo>> and a 64-bit usize
\* has four limbs.
LimbBits == TokenBits \div 2

\* 2^LimbBits
LimbMod == 256 * 256
Limbs == 0..(LimbMod - 1)

\* "no key": the None of an Option<FontKey>
NoKey == <<>>

\* ------------------------------------------------------------ environment
\* Font descriptors a caller may pass: "A" and "B" match installed fonts,
\* "N" matches a font whose pattern names no file, "X" matches nothing.
Descs == {"A", "B", "N", "X"}
Sizes == 1..MaxSize
Dprs == 1..MaxDpr
Chars == {"a", "c", "d", "g", "h", "z"}

\* The installed fonts.  glyphs: the characters the font file really maps
\* to a glyph; hascs/charset: the character set its Fontconfig pattern
\* declares (it may name characters the file lacks, as font 2 does, miss
\* characters the file has, as font 4 does, or not be reported); loc: the
\* (path, index) of its file, 0 when the pattern names none; loads: whether
\* FreeType can open that file; kern: whether the face has kerning tables.
SysFont(f) ==
    CASE f = 1 -> [glyphs |-> {"a"}, hascs |-> TRUE, charset |-> {"a"},
                   loc |-> 1, loads |-> TRUE, kern |-> TRUE]
      [] f = 2 -> [glyphs |-> {"c"}, hascs |-> TRUE, charset |-> {"c", "d", "h"},
                   loc |-> 2, loads |-> TRUE, kern |-> FALSE]
      [] f = 3 -> [glyphs |-> {"d"}, hascs |-> FALSE, charset |-> {},
                   loc |-> 3, loads |-> TRUE, kern |-> FALSE]
      [] f = 4 -> [glyphs |-> {"d", "z"}, hascs |-> TRUE, charset |-> {"d"},
                   loc |-> 4, loads |-> TRUE, kern |-> TRUE]
      [] f = 5 -> [glyphs |-> {}, hascs |-> TRUE, charset |-> {"h"},
                   loc |-> 0, loads |-> FALSE, kern |-> FALSE]
      [] f = 6 -> [glyphs |-> {"g"}, hascs |-> TRUE, charset |-> {"g"},
                   loc |-> 6, loads |-> FALSE, kern |-> FALSE]
      [] f = 7 -> [glyphs |-> {"g", "a"}, hascs |-> TRUE, charset |-> {"g", "a"},
                   loc |-> 7, loads |-> TRUE, kern |-> FALSE]
      [] OTHER -> [glyphs |-> {}, hascs |-> FALSE, charset |-> {},
                   loc |-> 0, loads |-> FALSE, kern |-> FALSE]

FontIds == 1..7

\* fc::font_sort: the installed fonts ordered by closeness to the request,
\* the primary font first; <<>> stands for "no font set".
font_sort(desc) ==
    CASE desc = "A" -> <<1, 2, 3, 4, 5, 6, 7>>
      [] desc = "B" -> <<7, 2>>
      [] desc = "N" -> <<5, 1>>
      [] OTHER -> <<>>

\* ---------------------------------------------------------- machine words
RECURSIVE Xor(_, _, _)
\* bitwise exclusive or of two n-bit numbers
Xor(a, b, n) ==
    IF n = 0 THEN 0
    ELSE (((a % 2) + (b % 2)) % 2) + 2 * Xor(a \div 2, b \div 2, n - 1)

\* u32::rotate_left(1)
rotate_left_1(x) ==
    << ((x[1] * 2) % LimbMod) + (x[2] \div (LimbMod \div 2)),
       ((x[2] * 2) % LimbMod) + (x[1] \div (LimbMod \div 2)) >>

\* u32 ^ u32
BitXor32(x, y) == << Xor(x[1], y[1], LimbBits), Xor(x[2], y[2], LimbBits) >>

\* x < y on u32 (FontKey tokens compared as numbers)
Less32(x, y) == x[1] < y[1] \/ (x[1] = y[1] /\ x[2] < y[2])

\* AtomicUsize::fetch_add(1): the new counter, wrapping at the word size
RECURSIVE Incr(_, _)
Incr(w, i) ==
    IF i = 0 THEN w
    ELSE IF w[i] + 1 < LimbMod THEN [w EXCEPT ![i] = w[i] + 1]
    ELSE Incr([w EXCEPT ![i] = 0], i - 1)

fetch_add_1(w) == Incr(w, Len(w))

\* usize as u32: the low TokenBits bits
as_u32(w) == SubSeq(w, Len(w) - (TokenBits \div LimbBits) + 1, Len(w))

\* The usize values n (below 2^LimbBits) and 2^TokenBits - 1.
Usize(n) == [i \in 1..(UsizeBits \div LimbBits) |->
               IF i = UsizeBits \div LimbBits THEN n ELSE 0]
UsizeU32Max == [i \in 1..(UsizeBits \div LimbBits) |->
                  IF i > (UsizeBits - TokenBits) \div LimbBits THEN LimbMod - 1 ELSE 0]

\* FontKey::next: the key handed out and the counter afterwards
FontKey_next(tok) == [key |-> as_u32(tok), token |-> fetch_add_1(tok)]

\* FontKey::from_pattern_hashes
from_pattern_hashes(lhs, rhs) == BitXor32(rotate_left_1(lhs), rhs)

\* ------------------------------------------------- Fontconfig patterns
\* A point size (f32) is the fraction num / den.
\* Size::as_f32_pts: f32::from(self.0) / Size::factor()
as_f32_pts(size) == [num |-> size, den |-> Size_factor]

\* An f32 that is no fraction has den = 0: NaN (num = 0), +inf (num = 1),
\* -inf (num = -1).
NaN == [num |-> 0, den |-> 0]
Infinity == [num |-> 1, den |-> 0]
NegInfinity == [num |-> -1, den |-> 0]

\* The quotient n / d (d > 0) truncated toward zero, as a float-to-integer
\* cast truncates.
trunc(n, d) == IF n >= 0 THEN n \div d ELSE 0 - ((0 - n) \div d)

\* An integer saturated to the range of i16.
saturate(n) ==
    IF n > I16Max THEN I16Max ELSE IF n < -I16Max - 1 THEN -I16Max - 1 ELSE n

\* `as i16` of an f32: NaN gives 0, a value out of range saturates, any
\* other value is truncated toward zero.
as_i16(pts) ==
    IF pts.den = 0
    THEN (IF pts.num = 0 THEN 0 ELSE IF pts.num > 0 THEN I16Max ELSE -I16Max - 1)
    ELSE saturate(trunc(pts.num, pts.den))

\* Size::new: (size * Size::factor()) as i16
Size_new(pts) == as_i16([num |-> pts.num * Size_factor, den |-> pts.den])

\* i16::saturating_add
saturating_add(a, b) == saturate(a + b)

\* An i16 product that overflowed, wrapped to 16 bits.
wrapping_i16(n) == ((n + I16Max + 1) % (2 * (I16Max + 1))) - (I16Max + 1)

\* Device pixel size of a request, in thirds of a pixel:
\* size.as_f32_pts() * device_pixel_ratio * 96. / 72.
PixelSize(size, dpr) ==
    (as_f32_pts(size).num * dpr * 96 * 3) \div (as_f32_pts(size).den * 72)

DescNo(desc) ==
    CASE desc = "A" -> 1 [] desc = "B" -> 2 [] desc = "N" -> 3 [] OTHER -> 4

\* Pattern::hash of the request pattern (family, pixel size, style).
RequestHash(desc, px) ==
    << (DescNo(desc) * 4099 + px * 257) % LimbMod,
       (DescNo(desc) * 40503 + px * 8191) % LimbMod >>

\* Pattern::hash of a matched font rendered against the request pattern
\* (render_prepare): it depends on the request and on the font.
RenderedHash(pat) ==
    << (pat.font * 12289 + DescNo(pat.desc) * 769 + pat.px * 97) % LimbMod,
       (pat.font * 24593 + DescNo(pat.desc) * 3079 + pat.px * 53) % LimbMod >>

\* pattern.render_prepare(config, font)
render_prepare(desc, px, f) == [desc |-> desc, px |-> px, font |-> f]

\* PatternRef::get_charset, None when the pattern reports no charset
HasCharset(pat) == SysFont(pat.font).hascs
get_charset(pat) == SysFont(pat.font).charset

\* PatternRef::ft_face_location(0): 0 stands for None
ft_face_location(pat) == SysFont(pat.font).loc

\* FT_Get_Char_Index on the face of font f
get_char_index(f, ch) ==
    IF ch \in SysFont(f).glyphs THEN 1 + f ELSE MISSING_GLYPH_INDEX

\* ------------------------------------------------------- FreeTypeLoader
\* The loader is the record [faces, ft_faces]: faces maps a FontKey to its
\* FaceLoadingProperties, ft_faces maps a file location to the shared
\* native handle (handles are numbered in the order they were opened).

\* A map that keeps only the entry just inserted.
Put_evict(fn, k, v) == k :> v

\* HashMap::insert
Put(fn, k, v) == (k :> v) @@ fn

\* Library::new_face on the pattern's file: it fails on a file FreeType
\* cannot open.
new_face_ok(pat) == SysFont(pat.font).loads

\* FreeTypeLoader::load_ft_face once new_face succeeded: the new handle is
\* inserted into ft_faces.
load_ft_face(ldr, loc) ==
    [ldr EXCEPT !.ft_faces = Put(ldr.ft_faces, loc, Cardinality(DOMAIN ldr.ft_faces) + 1)]

\* The end of face_from_pattern: the FaceLoadingProperties are built around
\* the handle of the pattern's file and inserted under font_key.
insert_face(ldr, pat, font_key) ==
    [res |-> "Some", inserted |-> {font_key},
     loader |-> [ldr EXCEPT !.faces =
                    Put(ldr.faces, font_key,
                        [ft_face |-> ldr.ft_faces[ft_face_location(pat)],
                         font |-> pat.font, px |-> pat.px])]]

\* A face_from_pattern that opens the file anew for every key.
face_from_pattern_reopening(ldr, pat, font_key) ==
    IF ft_face_location(pat) = 0
    THEN [res |-> "None", loader |-> ldr, inserted |-> {}]
    ELSE IF font_key \in DOMAIN ldr.faces
    THEN [res |-> "Some", loader |-> ldr, inserted |-> {}]
    ELSE IF ~new_face_ok(pat)
    THEN [res |-> "Err", loader |-> ldr, inserted |-> {}]
    ELSE insert_face(load_ft_face(ldr, ft_face_location(pat)), pat, font_key)

\* FreeTypeLoader::face_from_pattern: Ok(Some(key)) | Ok(None) | Err
face_from_pattern(ldr, pat, font_key) ==
    IF ft_face_location(pat) = 0
    THEN [res |-> "None", loader |-> ldr, inserted |-> {}]
    ELSE IF font_key \in DOMAIN ldr.faces
    THEN [res |-> "Some", loader |-> ldr, inserted |-> {}]
    ELSE IF ft_face_location(pat) \in DOMAIN ldr.ft_faces
    THEN insert_face(ldr, pat, font_key)
    ELSE IF ~new_face_ok(pat)
    THEN [res |-> "Err", loader |-> ldr, inserted |-> {}]
    ELSE insert_face(load_ft_face(ldr, ft_face_location(pat)), pat, font_key)

\* The pixel sizes a request can have, and the FontKey of every (request,
\* matched font) pair: FontKey::from_pattern_hashes(hash, font.hash()) with
\* hash the request pattern's hash and font the rendered match.
PxValues == {PixelSize(sz, d) : sz \in Sizes, d \in Dprs}

pattern_key(desc, px, f) ==
    from_pattern_hashes(RequestHash(desc, px), RenderedHash(render_prepare(desc, px, f)))

KeyTable == [d \in Descs, px \in PxValues, f \in FontIds |-> pattern_key(d, px, f)]

\* --------------------------------------------------- FreeTypeRasterizer
\* The FallbackFont entries get_face collects from matched_fonts, from
\* position i on: each pattern rendered against the request, with its key.
RECURSIVE fallback_fonts(_, _, _, _)
fallback_fonts(desc, px, matched_fonts, i) ==
    IF i > Len(matched_fonts) THEN <<>>
    ELSE << [pattern |-> render_prepare(desc, px, matched_fonts[i]),
             key |-> KeyTable[desc, px, matched_fonts[i]]] >>
         \o fallback_fonts(desc, px, matched_fonts, i + 1)

\* fallback_font.get_charset().unwrap_or(&empty_charset)
charset_or_empty(font) ==
    IF HasCharset([font |-> font]) THEN get_charset([font |-> font]) ELSE {}

\* A coverage that also merges the charset of the primary font.
merged_coverage_with_primary(matched_fonts) ==
    UNION {charset_or_empty(matched_fonts[i]) : i \in 1..Len(matched_fonts)}

\* The coverage get_face merges from the charsets of the fallback fonts.
merged_coverage(matched_fonts) ==
    UNION {charset_or_empty(matched_fonts[i]) : i \in 2..Len(matched_fonts)}

\* A get_face that reports success where it found no font.
get_face_err_swallowed(kind, ldr, lists, issued) ==
    [res |-> "Ok", key |-> NoKey, loader |-> ldr, lists |-> lists,
     inserted |-> {}, issued |-> issued]

\* What get_face returns when it fails: the error, no key, the loader and
\* the fallback lists as they were, no inserted face, and the key
\* from_pattern_hashes built for the primary font (NoKey when the call
\* failed before building one).
get_face_err(kind, ldr, lists, issued) ==
    [res |-> kind, key |-> NoKey, loader |-> ldr, lists |-> lists,
     inserted |-> {}, issued |-> issued]

\* A get_face that stores the fallback list before it knows that the
\* primary face loaded.
get_face_loaded_listing(got, ldr, lists, desc, px, matched_fonts, primary_font_key) ==
    [res |-> IF got.res = "Err" THEN "PlatformError"
             ELSE IF got.res = "None" THEN "FontNotFound" ELSE "Ok",
     key |-> IF got.res = "Some" THEN primary_font_key ELSE NoKey,
     loader |-> got.loader,
     lists |-> Put(lists, primary_font_key,
                   [list |-> fallback_fonts(desc, px, matched_fonts, 2),
                    coverage |-> merged_coverage(matched_fonts)]),
     inserted |-> got.inserted, issued |-> primary_font_key]

\* get_face from "Load font if we haven't loaded it yet" on; got is what
\* face_from_pattern returned for the primary font.
get_face_loaded(got, ldr, lists, desc, px, matched_fonts, primary_font_key) ==
    IF got.res = "Err"
    THEN get_face_err("PlatformError", ldr, lists, primary_font_key)
    ELSE IF got.res = "None"
    THEN get_face_err("FontNotFound", ldr, lists, primary_font_key)
    ELSE [res |-> "Ok", key |-> primary_font_key, loader |-> got.loader,
          lists |-> Put(lists, primary_font_key,
                        [list |-> fallback_fonts(desc, px, matched_fonts, 2),
                         coverage |-> merged_coverage(matched_fonts)]),
          inserted |-> got.inserted, issued |-> primary_font_key]

\* get_face from the hashing of the primary font on.
get_face_matched(ldr, lists, desc, px, matched_fonts, primary_font_key) ==
    IF primary_font_key \in DOMAIN lists
    THEN [res |-> "Ok", key |-> primary_font_key, loader |-> ldr,
          lists |-> lists, inserted |-> {}, issued |-> primary_font_key]
    ELSE get_face_loaded(
           IF primary_font_key \in DOMAIN ldr.faces
           THEN [res |-> "Some", loader |-> ldr, inserted |-> {}]
           ELSE face_from_pattern(ldr, render_prepare(desc, px, matched_fonts[1]),
                                  primary_font_key),
           ldr, lists, desc, px, matched_fonts, primary_font_key)

\* FreeTypeRasterizer::get_face
get_face(ldr, lists, dpr, desc, size) ==
    IF Len(font_sort(desc)) = 0
    THEN get_face_err("FontNotFound", ldr, lists, NoKey)
    ELSE get_face_matched(ldr, lists, desc, PixelSize(size, dpr), font_sort(desc),
                          KeyTable[desc, PixelSize(size, dpr), font_sort(desc)[1]])

\* A coverage test that lets every character through.
coverage_has_char_any(fallback_list, ch) == TRUE

\* fallback_list.coverage.has_char(glyph.character)
coverage_has_char(fallback_list, ch) == ch \in fallback_list.coverage

\* A candidate test that never consults the candidate's own charset.
charset_has_char_any(font_pattern, ch) == TRUE

\* font_pattern.get_charset().map_or(false, |cs| cs.has_char(glyph.character))
charset_has_char(font_pattern, ch) ==
    HasCharset(font_pattern) /\ ch \in get_charset(font_pattern)

\* A glyph check that calls get_char_index twice.
checked_twice(checks) == checks + 2

\* One face.ft_face.get_char_index call more.
checked(checks) == checks + 1

\* What the lookups return: the outcome, the FontKey resolved to, the
\* loader afterwards, the number of get_char_index calls made, the number
\* of fallback candidates visited and the keys whose faces were inserted.
Resolved(res, key, ldr, checks, walked, inserted) ==
    [res |-> res, key |-> key, loader |-> ldr, checks |-> checks,
     walked |-> walked, inserted |-> inserted]

\* load_face_with_glyph returning from its None arm: face_from_pattern
\* answered got (Some or Err) for candidate i.
walk_return(got, font_key, checks, i) ==
    IF got.res = "Err"
    THEN Resolved("Err", NoKey, got.loader, checks, i, {})
    ELSE Resolved("Ok", font_key, got.loader, checks, i, got.inserted)

\* The loop of FreeTypeRasterizer::load_face_with_glyph from candidate i
\* on.  A loaded candidate ends the loop when it has the glyph; an unloaded
\* one when its own charset has the character and face_from_pattern does
\* not answer None; otherwise the loop goes on with the next candidate.
RECURSIVE walk_fallbacks(_, _, _, _, _, _)
walk_fallbacks(ldr, list, i, ch, checks, primary) ==
    IF i > Len(list)
    THEN Resolved("Ok", primary, ldr, checks, Len(list), {})
    ELSE IF list[i].key \in DOMAIN ldr.faces
    THEN IF get_char_index(ldr.faces[list[i].key].font, ch) # 0
         THEN Resolved("Ok", list[i].key, ldr, checked(checks), i, {})
         ELSE walk_fallbacks(ldr, list, i + 1, ch, checked(checks), primary)
    ELSE IF /\ charset_has_char(list[i].pattern, ch)
            /\ face_from_pattern(ldr, list[i].pattern, list[i].key).res # "None"
    THEN walk_return(face_from_pattern(ldr, list[i].pattern, list[i].key),
                     list[i].key, checks, i)
    ELSE walk_fallbacks(ldr, list, i + 1, ch, checks, primary)

\* FreeTypeRasterizer::load_face_with_glyph: "Panic" is the unwrap of a
\* missing fallback list.
load_face_with_glyph(ldr, lists, font_key, ch, checks) ==
    IF font_key \notin DOMAIN lists
    THEN Resolved("Panic", NoKey, ldr, checks, 0, {})
    ELSE IF ~coverage_has_char(lists[font_key], ch)
    THEN Resolved("Ok", font_key, ldr, checks, 0, {})
    ELSE walk_fallbacks(ldr, lists[font_key].list, 1, ch, checks, font_key)

\* Result::unwrap_or(glyph_key.font_key)
unwrap_or(r, font_key) ==
    IF r.res = "Err" THEN [r EXCEPT !.res = "Ok", !.key = font_key] ELSE r

\* A resolver that walks the fallback list even when the primary face has
\* the glyph.
face_for_glyph_walks(ldr, lists, font_key, ch) ==
    unwrap_or(load_face_with_glyph(ldr, lists, font_key, ch,
                 IF font_key \in DOMAIN ldr.faces THEN checked(0) ELSE 0),
              font_key)

\* FreeTypeRasterizer::face_for_glyph
face_for_glyph(ldr, lists, font_key, ch) ==
    IF /\ font_key \in DOMAIN ldr.faces
       /\ get_char_index(ldr.faces[font_key].font, ch) # 0
    THEN Resolved("Ok", font_key, ldr, checked(0), 0, {})
    ELSE unwrap_or(load_face_with_glyph(ldr, lists, font_key, ch,
                      IF font_key \in DOMAIN ldr.faces THEN checked(0) ELSE 0),
                   font_key)

\* ------------------------------------------- CoreText and DirectWrite
\* A key no load_font ever returned (a caller can make one with
\* FontKey::next).
UnknownKey == <<LimbMod - 1, LimbMod - 3>>

\* The "Apple Symbols" font Descriptor::to_font appends to the cascade.
AppleSymbols == 4

RECURSIVE SelectSeq2(_, _)
SelectSeq2(sq, keep) ==
    IF sq = <<>> THEN <<>>
    ELSE IF Head(sq) \in keep THEN <<Head(sq)>> \o SelectSeq2(Tail(sq), keep)
    ELSE SelectSeq2(Tail(sq), keep)

\* CoreTextRasterizer::get_font / Descriptor::to_font: the matching font
\* with its cascade list (entries without a file path dropped, "Apple
\* Symbols" appended), or font 0 when no descriptor of the family matches.
Ct_get_font(desc) ==
    IF font_sort(desc) = <<>> \/ desc = "N" THEN [font |-> 0, fallbacks |-> <<>>]
    ELSE [font |-> font_sort(desc)[1],
          fallbacks |-> SelectSeq2(Tail(font_sort(desc)),
                                   {f \in FontIds : SysFont(f).loc # 0})
                        \o <<AppleSymbols>>]

\* Font::get_glyph (darwin): a glyph whose bounding box is empty comes
\* back as the default glyph, with character ' '.
Ct_empty_bounds(f, index) == f = 7 /\ index = MISSING_GLYPH_INDEX
Ct_glyph_character(f, ch, index) == IF Ct_empty_bounds(f, index) THEN " " ELSE ch

\* The first font of the chain once(font).chain(fallbacks) with a glyph for
\* ch, as the pair (font, index); (font, MISSING_GLYPH_INDEX) when none has.
RECURSIVE Ct_find(_, _, _)
Ct_find(chain, ch, dflt) ==
    IF chain = <<>> THEN [font |-> dflt, index |-> MISSING_GLYPH_INDEX]
    ELSE IF get_char_index(Head(chain), ch) # MISSING_GLYPH_INDEX
    THEN [font |-> Head(chain), index |-> get_char_index(Head(chain), ch)]
    ELSE Ct_find(Tail(chain), ch, dflt)

\* DirectWrite: FontCollection::get_font_family_by_name and the style
\* search of load_font; 0 when the family or the style is not found.
Dw_find_font(desc) ==
    IF font_sort(desc) = <<>> \/ desc = "N" THEN 0 ELSE font_sort(desc)[1]

\* The fonts whose declared coverage has the character.
Dw_covering(ch) == {f \in FontIds : SysFont(f).hascs /\ ch \in SysFont(f).charset}

\* DirectWriteRasterizer::get_fallback_font: the font the system fallback
\* maps the character to (by declared coverage), 0 when it maps to none.
Dw_get_fallback_font(ch) ==
    IF Dw_covering(ch) = {} THEN 0
    ELSE CHOOSE f \in Dw_covering(ch) : \A g \in Dw_covering(ch) : f <= g

\* ---------------------------------------------------------------- bitmaps
\* The glyph slot before anything was rendered, and RasterizedGlyph::default().
NoBitmap ==
    [pixel_mode |-> "None", rows |-> 0, width |-> 0, pitch |-> 0, buffer |-> <<>>,
     bitmap_top |-> 0, bitmap_left |-> 0]

NoGlyph ==
    [width |-> 0, height |-> 0, top |-> 0, left |-> 0, advance |-> <<0, 0>>,
     buffer |-> [kind |-> "Rgb", bytes |-> <<>>]]

\* buf[i] of a Rust slice: sequences count from 1, slices from 0.
at(buf, i) == buf[i + 1]

\* PixelMode::Gray, one source row: every byte of buf[start..stop] pushed
\* three times.
RECURSIVE Gray_row(_, _, _)
Gray_row(buf, start, stop) ==
    IF start >= stop THEN <<>>
    ELSE << at(buf, start), at(buf, start), at(buf, start) >>
         \o Gray_row(buf, start + 1, stop)

\* PixelMode::Gray: for i in 0..bitmap.rows(), from row i on.
RECURSIVE Gray_rows(_, _)
Gray_rows(bm, i) ==
    IF i >= bm.rows THEN <<>>
    ELSE Gray_row(bm.buffer, i * bm.pitch, i * bm.pitch + bm.width)
         \o Gray_rows(bm, i + 1)

\* A bit test that counts the bits from the least significant one.
bit_value_lsb(byte, bit) == ((byte \div (2 ^ (7 - bit))) % 2) * 255

\* ((byte >> bit) & 1) * 255
bit_value(byte, bit) == ((byte \div (2 ^ bit)) % 2) * 255

\* unpack_byte: count bits of byte, from bit `bit` downwards, each pushed
\* three times.
RECURSIVE unpack_byte(_, _, _)
unpack_byte(byte, count, bit) ==
    IF count = 0 THEN <<>>
    ELSE << bit_value(byte, bit), bit_value(byte, bit), bit_value(byte, bit) >>
         \o unpack_byte(byte, count - 1, bit - 1)

\* min(8, columns)
min(a, b) == IF a <= b THEN a ELSE b

\* PixelMode::Mono, one source row: the while loop over the columns left.
RECURSIVE Mono_row(_, _, _, _)
Mono_row(buf, offset, byte, columns) ==
    IF columns = 0 THEN <<>>
    ELSE unpack_byte(at(buf, offset + byte), min(8, columns), 7)
         \o Mono_row(buf, offset, byte + 1, columns - min(8, columns))

\* PixelMode::Mono: for i in 0..rows, from row i on.
RECURSIVE Mono_rows(_, _)
Mono_rows(bm, i) ==
    IF i >= bm.rows THEN <<>>
    ELSE Mono_row(bm.buffer, i * bm.pitch, 0, bm.width) \o Mono_rows(bm, i + 1)

\* PixelMode::Bgra: while i < buf_size, four bytes at a time from buf[i].
RECURSIVE Bgra_pixels(_, _, _)
Bgra_pixels(bm, i, buf_size) ==
    IF i >= buf_size THEN <<>>
    ELSE << at(bm.buffer, i + 2), at(bm.buffer, i + 1), at(bm.buffer, i),
            at(bm.buffer, i + 3) >>
         \o Bgra_pixels(bm, i + 4, buf_size)

\* An Lcd row copied in the order of the source.
RECURSIVE Lcd_row_unswapped(_, _, _)
Lcd_row_unswapped(buf, j, stop) ==
    IF j >= stop THEN <<>>
    ELSE << at(buf, j), at(buf, j + 1), at(buf, j + 2) >>
         \o Lcd_row_unswapped(buf, j + 3, stop)

\* PixelMode::Lcd with Rgba::Bgr, one row: for j in (start..stop).step_by(3)
RECURSIVE Lcd_row_bgr(_, _, _)
Lcd_row_bgr(buf, j, stop) ==
    IF j >= stop THEN <<>>
    ELSE << at(buf, j + 2), at(buf, j + 1), at(buf, j) >>
         \o Lcd_row_bgr(buf, j + 3, stop)

\* PixelMode::Lcd: for i in 0..rows, from row i on; any other geometry
\* than Bgr copies buf[start..stop].
RECURSIVE Lcd_rows(_, _, _)
Lcd_rows(bm, rgba, i) ==
    IF i >= bm.rows THEN <<>>
    ELSE (IF rgba = "Bgr"
          THEN Lcd_row_bgr(bm.buffer, i * bm.pitch, i * bm.pitch + bm.width)
          ELSE SubSeq(bm.buffer, i * bm.pitch + 1, i * bm.pitch + bm.width))
         \o Lcd_rows(bm, rgba, i + 1)

\* An LcdV byte taken in the order of the source rows whatever the geometry.
LcdV_byte_unswapped(bm, rgba, i, j, k) == at(bm.buffer, (i * 3 + k) * bm.pitch + j)

\* PixelMode::LcdV: the byte pushed for row triple i, column j and channel
\* k, k being 2 - k under Rgba::Vbgr.
LcdV_byte(bm, rgba, i, j, k) ==
    at(bm.buffer, (i * 3 + (IF rgba = "Vbgr" THEN 2 - k ELSE k)) * bm.pitch + j)

\* PixelMode::LcdV: the three nested loops, the n-th pushed byte being that
\* of i = n / (3 * width), j = (n / 3) % width, k = n % 3.
LcdV_pixels(bm, rgba) ==
    [n \in 1..((bm.rows \div 3) * bm.width * 3) |->
        LcdV_byte(bm, rgba, (n - 1) \div (3 * bm.width),
                  ((n - 1) \div 3) % bm.width, (n - 1) % 3)]

\* FreeTypeRasterizer::normalize_buffer: (rows, pixels per row, buffer)
normalize_buffer(bm, rgba) ==
    CASE bm.pixel_mode = "Lcd" ->
           [height |-> bm.rows, width |-> bm.width \div 3,
            buffer |-> [kind |-> "Rgb", bytes |-> Lcd_rows(bm, rgba, 0)]]
      [] bm.pixel_mode = "LcdV" ->
           [height |-> bm.rows \div 3, width |-> bm.width,
            buffer |-> [kind |-> "Rgb", bytes |-> LcdV_pixels(bm, rgba)]]
      [] bm.pixel_mode = "Mono" ->
           [height |-> bm.rows, width |-> bm.width,
            buffer |-> [kind |-> "Rgb", bytes |-> Mono_rows(bm, 0)]]
      [] bm.pixel_mode = "Gray" ->
           [height |-> bm.rows, width |-> bm.width,
            buffer |-> [kind |-> "Rgb", bytes |-> Gray_rows(bm, 0)]]
      [] bm.pixel_mode = "Bgra" ->
           [height |-> bm.rows, width |-> bm.width,
            buffer |-> [kind |-> "Rgba",
                        bytes |-> Bgra_pixels(bm, 0, bm.rows * bm.width * 4)]]

\* An f64 factor as the fraction num/den of two positive integers; the
\* factors used are exact in f64, and so are their products with the
\* small integers they meet.
factor_lt_1(f) == f.num < f.den

\* A product rounded to the nearest integer where the code truncates.
scaled_nearest(x, f) ==
    IF x >= 0 THEN (2 * x * f.num + f.den) \div (2 * f.den)
    ELSE 0 - ((2 * (0 - x) * f.num + f.den) \div (2 * f.den))

\* (x as f64 * factor) as i32 / as usize: the product truncated toward zero
scaled(x, f) ==
    IF x >= 0 THEN (x * f.num) \div f.den ELSE 0 - (((0 - x) * f.num) \div f.den)

\* (x as f64 * factor).round(): half away from zero
scaled_round(x, f) ==
    IF x >= 0 THEN (2 * x * f.num + f.den) \div (2 * f.den)
    ELSE 0 - ((2 * (0 - x) * f.num + f.den) \div (2 * f.den))

\* A source index that is truncated where the code rounds.
source_start_truncated(index, f) == (index * f.den) \div f.num

\* (index as f64 * downsampling_step).round() as usize, the step being
\* 1.0 / fixup_factor
source_start(index, f) == (2 * index * f.den + f.num) \div (2 * f.num)

\* The sum of channel c over the source columns column..column_end of
\* one source line.
RECURSIVE line_sum(_, _, _, _, _)
line_sum(buf, source_pixel_index, column, column_end, c) ==
    IF column >= column_end THEN 0
    ELSE at(buf, (source_pixel_index + column) * 4 + c)
         + line_sum(buf, source_pixel_index, column + 1, column_end, c)

\* The sum of channel c over the source rectangle, from source line
\* `line` on.
RECURSIVE rect_sum(_, _, _, _, _, _, _)
rect_sum(buf, bitmap_width, line, line_end, column_start, column_end, c) ==
    IF line >= line_end THEN 0
    ELSE line_sum(buf, line * bitmap_width, column_start, column_end, c)
         + rect_sum(buf, bitmap_width, line + 1, line_end, column_start, column_end, c)

\* pixels_picked for the source rectangle
pixels_picked(line_start, line_end, column_start, column_end) ==
    (IF line_end > line_start THEN line_end - line_start ELSE 0)
    * (IF column_end > column_start THEN column_end - column_start ELSE 0)

\* Channel c of the output pixel (line_index, column_index): the sum over
\* its source rectangle divided by pixels_picked (u32 division, as u8).
averaged(g, f, line_index, column_index, c) ==
    (rect_sum(g.buffer.bytes, g.width,
              source_start(line_index, f), source_start(line_index + 1, f),
              source_start(column_index, f), source_start(column_index + 1, f), c)
     \div pixels_picked(source_start(line_index, f), source_start(line_index + 1, f),
                        source_start(column_index, f),
                        source_start(column_index + 1, f))) % 256

\* downsampled_buffer: target_height lines of target_width pixels of four
\* channels, in the order the loops push them.
downsampled_buffer(g, f, target_width, target_height) ==
    [n \in 1..(target_width * target_height * 4) |->
        averaged(g, f, (n - 1) \div (target_width * 4),
                 ((n - 1) \div 4) % target_width, (n - 1) % 4)]

\* A downsampler that scales whatever it is given.
downsample_guard_none(g, f) == FALSE

\* The early return of downsample_bitmap: anything but (Rgba, factor < 1.0)
downsample_guard(g, f) == ~(g.buffer.kind = "Rgba" /\ factor_lt_1(f))

\* downsample_bitmap past its early return
downsample_scaled(g, f) ==
    [g EXCEPT !.buffer = [kind |-> "Rgba",
                          bytes |-> downsampled_buffer(g, f, scaled(g.width, f),
                                                       scaled(g.height, f))],
              !.top = scaled(g.top, f),
              !.left = scaled(g.left, f),
              !.width = scaled(g.width, f),
              !.height = scaled(g.height, f)]

\* Whether the loops of downsample_bitmap panic: an output pixel whose
\* source rectangle is empty divides by zero, and a source rectangle that
\* reaches past the end of the buffer indexes out of bounds.
pixel_panics(g, f, line_index, column_index) ==
    \/ pixels_picked(source_start(line_index, f), source_start(line_index + 1, f),
                     source_start(column_index, f),
                     source_start(column_index + 1, f)) = 0
    \/ ((source_start(line_index + 1, f) - 1) * g.width
          + source_start(column_index + 1, f) - 1) * 4 + 3 >= Len(g.buffer.bytes)

downsample_panics(g, f) ==
    \E line_index \in 0..(scaled(g.height, f) - 1),
       column_index \in 0..(scaled(g.width, f) - 1) :
         pixel_panics(g, f, line_index, column_index)

\* What is left of the glyph when the call panicked.
Panicked == [NoGlyph EXCEPT !.buffer = [kind |-> "Panic", bytes |-> <<>>]]

\* downsample_bitmap
downsample_bitmap(g, f) ==
    IF downsample_guard(g, f) THEN g
    ELSE IF downsample_panics(g, f) THEN Panicked
    ELSE downsample_scaled(g, f)

\* The RasterizedGlyph get_glyph builds from the glyph slot: the normalized
\* buffer with the slot's bitmap_top, bitmap_left and advance.
rasterized_glyph(normalized, bm, advance) ==
    [width |-> normalized.width, height |-> normalized.height,
     top |-> bm.bitmap_top, left |-> bm.bitmap_left, advance |-> advance,
     buffer |-> normalized.buffer]

\* get_glyph's fixup_factor: face.pixelsize_fixup_factor (num = 0 stands for
\* None), else pixelsize / metrics.y_ppem.
fixup_factor(face, pixelsize, y_ppem) ==
    IF face.pixelsize_fixup_factor.num # 0 THEN face.pixelsize_fixup_factor
    ELSE [num |-> pixelsize, den |-> y_ppem]

\* get_glyph for a colored bitmap face, after the MISSING_GLYPH_INDEX test:
\* the advance and the bitmap scaled by the fixup factor.
colored_glyph(g, f) ==
    downsample_bitmap([g EXCEPT !.advance = << scaled_round(g.advance[1], f),
                                               scaled_round(g.advance[2], f) >>], f)

\* ------------------------------------------------------------------ state
VARIABLES
    backend,             \* which Rasterizer the build selected: "ft" | "ct" | "dw"
    faces,               \* ft: loader.faces, FontKey -> FaceLoadingProperties
    ft_faces,            \* ft: loader.ft_faces, file location -> native handle
    fallback_lists,      \* ft: FontKey -> FallbackList
    device_pixel_ratio,  \* ft, dw
    creation_timestamp,  \* ft: TRUE while Some(instant of construction)
    fonts,               \* ct, dw: FontKey -> Font
    keys,                \* ct: (FontDesc, Size) -> FontKey; dw: FontDesc -> FontKey
    TOKEN,               \* lib.rs: the static counter of FontKey::next
    result,              \* the last call: its arguments and what it returned
    returned,            \* history: each key load_font returned -> its cache entry then
    first_key,           \* history: (desc, size) -> key returned since the last update_dpr
    clock,               \* seconds since Rasterize::new
    reloads,             \* history: the clock times at which fc::update_config ran
    bitmap,              \* ft: the FT_Bitmap FreeType rendered into the glyph slot
    glyph,               \* ft: the RasterizedGlyph built from it
    size_held,           \* lib.rs: the i16 of the Size the last Size operation built
    char_size            \* ft: native handle -> the pixel size set_char_size gave it

vars == << backend, faces, ft_faces, fallback_lists, device_pixel_ratio,
           creation_timestamp, fonts, keys, TOKEN, result, returned,
           first_key, clock, reloads, bitmap, glyph, size_held, char_size >>

Empty == [x \in {} |-> 0]

NoResult ==
    [op |-> "new", outcome |-> "Ok", key |-> NoKey, desc |-> "", size |-> 0,
     ch |-> "", font_key |-> NoKey, checks |-> 0, walked |-> 0, inserted |-> {},
     before |-> {}, issued |-> NoKey, character |-> "",
     index |-> 0, reloaded |-> FALSE, kerning |-> <<0, 0>>, again |-> FALSE,
     slots |-> {}, sized |-> {}, pixelsize |-> 0, carried |-> "",
     rgba |-> "Unknown", factor |-> [num |-> 0, den |-> 1], colored |-> FALSE,
     requested |-> 0, strike |-> 0,
     pts |-> [num |-> 0, den |-> 1], lhs |-> 0, rhs |-> 0, size_metrics |-> 0]

\* The cache a FontKey is looked up in: loader.faces or fonts.
Cache == IF backend = "ft" THEN faces ELSE fonts

\* Rasterize::new.  The process-wide TOKEN may already have handed out keys
\* before the rasterizer is built: FontKey::next was never called, or it
\* was called 2^32 - 1 times.
Init ==
    /\ backend \in {"ft", "ct", "dw"}
    /\ faces = Empty
    /\ ft_faces = Empty
    /\ fallback_lists = Empty
    /\ device_pixel_ratio \in (IF backend = "ct" THEN {1} ELSE Dprs)
    /\ creation_timestamp = (backend = "ft")
    /\ fonts = Empty
    /\ keys = Empty
    /\ TOKEN \in (IF backend = "ft" THEN {Usize(0)} ELSE {Usize(0), UsizeU32Max})
    /\ result = NoResult
    /\ returned = Empty
    /\ first_key = Empty
    /\ clock = 0
    /\ reloads = {}
    /\ bitmap = NoBitmap
    /\ glyph = NoGlyph
    /\ size_held = 0
    /\ char_size = Empty

\* History kept by every load_font: the key it returned and the cache entry
\* the key maps to.
Record(desc, size, key, cache) ==
    /\ returned' = IF key = NoKey \/ key \in DOMAIN returned THEN returned
                   ELSE [k \in (DOMAIN returned) \cup {key} |->
                           IF k = key THEN cache[key] ELSE returned[k]]
    /\ first_key' = IF key = NoKey \/ <<desc, size>> \in DOMAIN first_key
                    THEN first_key
                    ELSE [c \in (DOMAIN first_key) \cup {<<desc, size>>} |->
                            IF c = <<desc, size>> THEN key ELSE first_key[c]]

\* The seconds creation_timestamp.elapsed() may report to load_font.
Elapsed == {RELOAD_DELAY, RELOAD_DELAY + 1}

\* A refresh test that is always due.
reload_due_always(timestamp, elapsed) == TRUE

\* self.creation_timestamp.map_or(true, |t| t.elapsed() > RELOAD_DELAY)
reload_due(timestamp, elapsed) == ~timestamp \/ elapsed > RELOAD_DELAY

\* The body of FreeTypeRasterizer::load_font.  elapsed: the time since
\* construction that creation_timestamp.elapsed() reports.
Ft_load_font_call(desc, size, elapsed) ==
    /\ backend = "ft"
    /\ \E r \in {get_face([faces |-> faces, ft_faces |-> ft_faces], fallback_lists,
                          device_pixel_ratio, desc, size)},
          reload \in {reload_due(creation_timestamp, elapsed)} :
         /\ r.lists = fallback_lists \/ Cardinality(DOMAIN fallback_lists) < MaxFonts
         /\ creation_timestamp' = IF reload THEN FALSE ELSE creation_timestamp
         /\ faces' = r.loader.faces
         /\ ft_faces' = r.loader.ft_faces
         /\ fallback_lists' = r.lists
         /\ result' = [NoResult EXCEPT !.op = "load_font", !.outcome = r.res,
                          !.key = r.key, !.desc = desc, !.size = size,
                          !.again = <<desc, size>> \in DOMAIN first_key,
                          !.inserted = r.inserted, !.before = DOMAIN faces,
                          !.issued = r.issued,
                          !.reloaded = reload,
                          !.carried = IF r.res = "FontNotFound" THEN desc ELSE ""]
         /\ Record(desc, size, r.key, r.loader.faces)
    /\ UNCHANGED << backend, device_pixel_ratio, fonts, keys, TOKEN >>

\* FreeTypeRasterizer::load_font, the elapsed time being an input.
Ft_load_font(desc, size, elapsed) ==
    /\ Ft_load_font_call(desc, size, elapsed)
    /\ UNCHANGED << clock, reloads, bitmap, glyph, size_held, char_size >>

\* FreeTypeRasterizer::load_font called when the clock shows `clock`; the
\* time of the call is recorded when it ran fc::update_config.
Ft_load_font_now(desc, size) ==
    /\ Ft_load_font_call(desc, size, clock)
    /\ reloads' = IF reload_due(creation_timestamp, clock)
                  THEN reloads \cup {clock} ELSE reloads
    /\ UNCHANGED << clock, bitmap, glyph, size_held, char_size >>

\* A second passes.
Tick ==
    /\ clock < MaxClock
    /\ clock' = clock + 1
    /\ UNCHANGED << backend, faces, ft_faces, fallback_lists, device_pixel_ratio,
                    creation_timestamp, fonts, keys, TOKEN, result, returned,
                    first_key, reloads, bitmap, glyph, size_held, char_size >>

\* ft_face.has_color() && !ft_face.is_scalable(): font 4 is a color font
\* with fixed bitmap strikes.
colored_bitmap(f) == f = 4

\* FaceLoadingProperties::non_scalable, from pattern.scalable() and
\* pattern.pixelsize(): the fixed strike size of a font that does not
\* scale, in the unit of PixelSize; 0 stands for None.
non_scalable(f) == IF f = 4 THEN 8 ELSE 0

\* The pixel size get_glyph rasterizes at:
\* face.non_scalable.unwrap_or_else(|| size.as_f32_pts() * dpr * 96. / 72.)
glyph_pixelsize(face, size, dpr) ==
    IF non_scalable(face.font) # 0 THEN non_scalable(face.font)
    ELSE PixelSize(size, dpr)

\* ft_face.set_char_size(to_freetype_26_6(pixelsize), 0, 0, 0) on native
\* handle h: the size lives in the FT_Face, which every FontKey of the same
\* file shares.
set_char_size(sizes, h, pixelsize) == Put(sizes, h, pixelsize)

\* ft_face.size_metrics() of native handle h: the metrics of the size the
\* last set_char_size gave the face, 0 for those load_ft_face left it with.
size_metrics(sizes, h) == IF h \in DOMAIN sizes THEN sizes[h] ELSE 0

\* What get_glyph answers once the face is resolved: the native calls come
\* before the test of the glyph index.
Ft_outcome(res, native_ok, index) ==
    IF res = "Panic" THEN "Panic"
    ELSE IF ~native_ok THEN "PlatformError"
    ELSE IF index = MISSING_GLYPH_INDEX THEN "MissingGlyph"
    ELSE "Ok"

\* FreeTypeRasterizer::get_glyph.  native_ok: whether FreeType's
\* set_char_size, load_glyph, render_glyph and bitmap calls all succeed.
\* The call sets the character size of the resolved face unless it is a
\* color bitmap face, and loads the glyph into its glyph slot.  This is
\* the call without the size the native face is left with.
Ft_get_glyph_call(font_key, ch, size, native_ok) ==
    /\ backend = "ft"
    /\ \E r \in {face_for_glyph([faces |-> faces, ft_faces |-> ft_faces],
                                fallback_lists, font_key, ch)} :
       \E index \in {IF r.res = "Ok"
                     THEN get_char_index(r.loader.faces[r.key].font, ch) ELSE 0} :
       \E outcome \in {Ft_outcome(r.res, native_ok, index)} :
         /\ faces' = r.loader.faces
         /\ ft_faces' = r.loader.ft_faces
         /\ result' = [NoResult EXCEPT !.op = "get_glyph", !.outcome = outcome,
                          !.key = r.key, !.font_key = font_key, !.ch = ch,
                          !.size = size,
                          !.checks = r.checks, !.walked = r.walked,
                          !.inserted = r.inserted, !.before = DOMAIN faces,
                          !.index = index,
                          !.character = IF outcome \in {"Ok", "MissingGlyph"}
                                        THEN ch ELSE "",
                          !.pixelsize = IF r.res = "Ok"
                                        THEN glyph_pixelsize(r.loader.faces[r.key],
                                                             size, device_pixel_ratio)
                                        ELSE 0,
                          !.sized = IF r.res = "Ok"
                                       /\ ~colored_bitmap(r.loader.faces[r.key].font)
                                    THEN {r.loader.faces[r.key].ft_face} ELSE {},
                          !.slots = IF r.res = "Ok"
                                    THEN {r.loader.faces[r.key].ft_face} ELSE {}]
    /\ UNCHANGED << backend, fallback_lists, device_pixel_ratio, creation_timestamp,
                    fonts, keys, TOKEN, returned, first_key, clock,
                    reloads, bitmap, glyph, size_held >>

\* FreeTypeRasterizer::get_glyph as the caches see it: which handles it
\* sized is recorded in result.sized, the sizes themselves are followed by
\* Ft_get_glyph_sized.
Ft_get_glyph(font_key, ch, size, native_ok) ==
    /\ Ft_get_glyph_call(font_key, ch, size, native_ok)
    /\ UNCHANGED char_size

\* FreeTypeRasterizer::get_glyph with the character size it leaves in the
\* native face: set_char_size is the first native call, so the size is set
\* when all calls succeed and may or may not be set when one of them fails.
Ft_get_glyph_sized(font_key, ch, size, native_ok) ==
    /\ Ft_get_glyph_call(font_key, ch, size, native_ok)
    /\ char_size' \in
         IF result'.sized = {} THEN {char_size}
         ELSE {set_char_size(char_size, h, result'.pixelsize) : h \in result'.sized}
              \cup (IF native_ok THEN {} ELSE {char_size})

\* FT_Get_Kerning on font f, for a face with kerning tables: the pair of
\* glyph indices the vector is looked up for; <<0, 0>> without tables.
Ft_kerning_pair(f, left, right) ==
    IF SysFont(f).kern
    THEN <<get_char_index(f, left), get_char_index(f, right)>>
    ELSE <<0, 0>>

\* FreeTypeRasterizer::kerning
Ft_kerning(font_key, left, right) ==
    /\ backend = "ft"
    /\ \E r \in {face_for_glyph([faces |-> faces, ft_faces |-> ft_faces],
                                fallback_lists, font_key, left)} :
         /\ faces' = r.loader.faces
         /\ ft_faces' = r.loader.ft_faces
         /\ result' = [NoResult EXCEPT !.op = "kerning",
                          !.outcome = IF r.res = "Panic" THEN "Panic" ELSE "Ok",
                          !.key = r.key, !.font_key = font_key, !.ch = left,
                          !.checks = r.checks, !.walked = r.walked,
                          !.inserted = r.inserted, !.before = DOMAIN faces,
                          !.kerning = IF r.res = "Ok"
                                      THEN Ft_kerning_pair(r.loader.faces[r.key].font,
                                                           left, right)
                                      ELSE <<0, 0>>]
    /\ UNCHANGED << backend, fallback_lists, device_pixel_ratio, creation_timestamp,
                    fonts, keys, TOKEN, returned, first_key, clock,
                    reloads, bitmap, glyph, size_held, char_size >>

\* A full_metrics that sets the character size of the face it measures.
full_metrics_resizing(face, size_ok) ==
    IF ~size_ok
    THEN [res |-> "MetricsNotFound", slots |-> {}, sized |-> {}]
    ELSE [res |-> "Ok", slots |-> {face.ft_face}, sized |-> {face.ft_face}]

\* FreeTypeRasterizer::full_metrics: MetricsNotFound when the face has no
\* size metrics (size_ok false); otherwise load_char('0') loads a glyph
\* into the glyph slot of the native face.  slots: the native handles whose
\* glyph slot the call overwrote; sized: those whose character size it set.
full_metrics(face, size_ok) ==
    IF ~size_ok
    THEN [res |-> "MetricsNotFound", slots |-> {}, sized |-> {}]
    ELSE [res |-> "Ok", slots |-> {face.ft_face}, sized |-> {}]

\* FreeTypeRasterizer::metrics.  size_ok: whether ft_face.size_metrics()
\* answers Some.
Ft_metrics(key, size_ok) ==
    /\ backend = "ft"
    /\ \E full \in {IF key \in DOMAIN faces
                     THEN full_metrics(faces[key], size_ok)
                     ELSE [res |-> "UnknownFontKey", slots |-> {}, sized |-> {}]} :
         result' = [NoResult EXCEPT !.op = "metrics", !.outcome = full.res,
                      !.font_key = key, !.before = DOMAIN faces,
                      !.slots = full.slots, !.sized = full.sized,
                      !.size_metrics =
                          IF full.res = "Ok"
                          THEN size_metrics(char_size, faces[key].ft_face) ELSE 0]
    /\ UNCHANGED << backend, faces, ft_faces, fallback_lists, device_pixel_ratio,
                    creation_timestamp, fonts, keys, TOKEN, returned,
                    first_key, clock,
                    reloads, bitmap, glyph, size_held, char_size >>

\* An update_dpr that drops the fallback lists.
update_dpr_clearing(dpr) ==
    /\ backend \in {"ft", "dw"}
    /\ device_pixel_ratio' = dpr
    /\ first_key' = Empty
    /\ fallback_lists' = Empty
    /\ result' = [NoResult EXCEPT !.op = "update_dpr", !.before = DOMAIN Cache]
    /\ UNCHANGED << backend, faces, ft_faces, creation_timestamp,
                    fonts, keys, TOKEN, returned, clock,
                    reloads, bitmap, glyph, size_held, char_size >>

\* FreeTypeRasterizer::update_dpr, DirectWriteRasterizer::update_dpr
update_dpr(dpr) ==
    /\ backend \in {"ft", "dw"}
    /\ device_pixel_ratio' = dpr
    /\ first_key' = Empty
    /\ result' = [NoResult EXCEPT !.op = "update_dpr", !.before = DOMAIN Cache]
    /\ UNCHANGED << backend, faces, ft_faces, fallback_lists, creation_timestamp,
                    fonts, keys, TOKEN, returned, clock,
                    reloads, bitmap, glyph, size_held, char_size >>

\* A lookup that never finds the cached key.
keys_get_miss(map, k) == NoKey

\* self.keys.get(..): the cached key, NoKey for None
keys_get(map, k) == IF k \in DOMAIN map THEN map[k] ELSE NoKey

\* load_font of the CoreText and DirectWrite rasterizers once the key cache
\* was consulted: cached is the key it holds under cache_key (NoKey for
\* none), font the Font the descriptor resolves to (font.font = 0 when none
\* matches), nk the result of FontKey::next.
keyed_load_font(desc, size, cache_key, cached, font, nk) ==
    \E alloc \in {cached = NoKey /\ font.font # 0} :
    \E key \in {IF cached # NoKey THEN cached
                ELSE IF font.font # 0 THEN nk.key ELSE NoKey} :
      /\ fonts' = IF alloc THEN Put(fonts, key, font) ELSE fonts
      /\ keys' = IF alloc THEN Put(keys, cache_key, key) ELSE keys
      /\ TOKEN' = IF alloc THEN nk.token ELSE TOKEN
      /\ result' = [NoResult EXCEPT !.op = "load_font",
                       !.outcome = IF key = NoKey THEN "FontNotFound" ELSE "Ok",
                       !.key = key, !.desc = desc, !.size = size,
                       !.again = <<desc, size>> \in DOMAIN first_key,
                       !.inserted = IF alloc THEN {key} ELSE {},
                       !.before = DOMAIN fonts,
                       !.issued = IF alloc THEN key ELSE NoKey,
                       !.carried = IF key = NoKey THEN desc ELSE ""]
      /\ Record(desc, size, key, fonts')
      /\ UNCHANGED << backend, faces, ft_faces, fallback_lists, device_pixel_ratio,
                      creation_timestamp, clock,
                    reloads, bitmap, glyph, size_held, char_size >>

\* CoreTextRasterizer::load_font.  The cache key is the size rebuilt from
\* its point value, Size::new(size.as_pt()), the point value being the one
\* Size::as_f32_pts computes.
Ct_load_font(desc, size) ==
    /\ backend = "ct"
    /\ \E scaled_size \in {Size_new(as_f32_pts(size))} :
         keyed_load_font(desc, size, <<desc, scaled_size>>,
                         keys_get(keys, <<desc, scaled_size>>),
                         Ct_get_font(desc), FontKey_next(TOKEN))

\* CoreTextRasterizer::get_glyph
Ct_get_glyph(font_key, ch) ==
    /\ backend = "ct"
    /\ \/ /\ font_key \notin DOMAIN fonts
          /\ result' = [NoResult EXCEPT !.op = "get_glyph",
                           !.outcome = "UnknownFontKey",
                           !.font_key = font_key, !.ch = ch,
                           !.before = DOMAIN fonts]
       \/ /\ font_key \in DOMAIN fonts
          /\ \E hit \in {Ct_find(<<fonts[font_key].font>> \o fonts[font_key].fallbacks,
                                 ch, fonts[font_key].font)} :
               result' = [NoResult EXCEPT !.op = "get_glyph",
                            !.outcome = IF hit.index = MISSING_GLYPH_INDEX
                                        THEN "MissingGlyph" ELSE "Ok",
                            !.key = font_key, !.font_key = font_key, !.ch = ch,
                            !.before = DOMAIN fonts, !.index = hit.index,
                            !.character = Ct_glyph_character(hit.font, ch, hit.index)]
    /\ UNCHANGED << backend, faces, ft_faces, fallback_lists, device_pixel_ratio,
                    creation_timestamp, fonts, keys, TOKEN, returned,
                    first_key, clock,
                    reloads, bitmap, glyph, size_held, char_size >>

\* CoreTextRasterizer::kerning
Ct_kerning(font_key, left, right) ==
    /\ backend = "ct"
    /\ result' = [NoResult EXCEPT !.op = "kerning", !.font_key = font_key,
                     !.ch = left, !.before = DOMAIN fonts, !.kerning = <<0, 0>>]
    /\ UNCHANGED << backend, faces, ft_faces, fallback_lists, device_pixel_ratio,
                    creation_timestamp, fonts, keys, TOKEN, returned,
                    first_key, clock,
                    reloads, bitmap, glyph, size_held, char_size >>

\* CoreTextRasterizer::metrics, DirectWriteRasterizer::metrics
fonts_metrics(key) ==
    /\ backend \in {"ct", "dw"}
    /\ result' = [NoResult EXCEPT !.op = "metrics",
                     !.outcome = IF key \in DOMAIN fonts THEN "Ok" ELSE "UnknownFontKey",
                     !.font_key = key, !.before = DOMAIN fonts]
    /\ UNCHANGED << backend, faces, ft_faces, fallback_lists, device_pixel_ratio,
                    creation_timestamp, fonts, keys, TOKEN, returned,
                    first_key, clock,
                    reloads, bitmap, glyph, size_held, char_size >>

\* DirectWriteRasterizer::load_font
Dw_load_font(desc, size) ==
    /\ backend = "dw"
    /\ keyed_load_font(desc, size, desc, keys_get(keys, desc),
                       [font |-> Dw_find_font(desc), fallbacks |-> <<>>],
                       FontKey_next(TOKEN))

\* The font get_glyph rasterizes from: the loaded font, or the system
\* fallback when the loaded font's glyph index is 0 and a fallback exists.
Dw_glyph_font(loaded_font, ch) ==
    IF /\ get_char_index(loaded_font, ch) = MISSING_GLYPH_INDEX
       /\ Dw_get_fallback_font(ch) # 0
    THEN Dw_get_fallback_font(ch)
    ELSE loaded_font

\* DirectWriteRasterizer::get_glyph.  native_ok: whether rasterize_glyph's
\* DirectWrite calls succeed.
Dw_get_glyph(font_key, ch, native_ok) ==
    /\ backend = "dw"
    /\ \/ /\ font_key \notin DOMAIN fonts
          /\ result' = [NoResult EXCEPT !.op = "get_glyph",
                           !.outcome = "UnknownFontKey",
                           !.font_key = font_key, !.ch = ch,
                           !.before = DOMAIN fonts]
       \/ /\ font_key \in DOMAIN fonts
          /\ \E glyph_index \in
                 {get_char_index(Dw_glyph_font(fonts[font_key].font, ch), ch)} :
               result' = [NoResult EXCEPT !.op = "get_glyph",
                            !.outcome = IF ~native_ok THEN "PlatformError"
                                        ELSE IF glyph_index = MISSING_GLYPH_INDEX
                                        THEN "MissingGlyph" ELSE "Ok",
                            !.key = font_key, !.font_key = font_key, !.ch = ch,
                            !.before = DOMAIN fonts, !.index = glyph_index,
                            !.character = IF native_ok THEN ch ELSE ""]
    /\ UNCHANGED << backend, faces, ft_faces, fallback_lists, device_pixel_ratio,
                    creation_timestamp, fonts, keys, TOKEN, returned,
                    first_key, clock,
                    reloads, bitmap, glyph, size_held, char_size >>

\* The FontKeys a caller may pass: the keys load_font returned and one
\* unknown key.
KeyInputs == (DOMAIN returned) \cup {UnknownKey}

\* The left-hand and right-hand characters offered to kerning.
KernLeft == {"a", "d"}
KernRight == {"a"}

Next ==
    \/ \E desc \in Descs, size \in Sizes, elapsed \in Elapsed :
         Ft_load_font(desc, size, elapsed)
    \/ \E k \in KeyInputs, ch \in Chars, size \in Sizes, ok \in BOOLEAN :
         Ft_get_glyph(k, ch, size, ok)
    \/ \E k \in KeyInputs, l \in KernLeft, r \in KernRight : Ft_kerning(k, l, r)
    \/ \E k \in KeyInputs, size_ok \in BOOLEAN : Ft_metrics(k, size_ok)
    \/ \E dpr \in Dprs : update_dpr(dpr)
    \/ \E desc \in Descs, size \in Sizes : Ct_load_font(desc, size)
    \/ \E k \in KeyInputs, ch \in Chars : Ct_get_glyph(k, ch)
    \/ \E k \in KeyInputs, l \in KernLeft, r \in KernRight : Ct_kerning(k, l, r)
    \/ \E k \in KeyInputs : fonts_metrics(k)
    \/ \E desc \in Descs, size \in Sizes : Dw_load_font(desc, size)
    \/ \E k \in KeyInputs, ch \in Chars, ok \in BOOLEAN : Dw_get_glyph(k, ch, ok)

Spec == Init /\ [][Next]_vars

\* The FreeType rasterizer under a running clock: load_font calls at the
\* time the clock shows, update_dpr calls, and the passing of time.
InitClock == Init /\ backend = "ft"

NextClock ==
    \/ \E desc \in Descs, size \in Sizes : Ft_load_font_now(desc, size)
    \/ \E dpr \in Dprs : update_dpr(dpr)
    \/ Tick

SpecClock == InitClock /\ [][NextClock]_vars

\* The FreeType rasterizer with the character sizes of its native faces:
\* load_font, get_glyph, metrics and update_dpr calls.
InitNative == Init /\ backend = "ft"

NextNative ==
    \/ \E desc \in {"A", "B"}, size \in Sizes, elapsed \in Elapsed :
         Ft_load_font(desc, size, elapsed)
    \/ \E k \in KeyInputs, ch \in {"a", "g"}, size \in Sizes, ok \in BOOLEAN :
         Ft_get_glyph_sized(k, ch, size, ok)
    \/ \E k \in KeyInputs, size_ok \in BOOLEAN : Ft_metrics(k, size_ok)
    \/ \E dpr \in Dprs : update_dpr(dpr)

SpecNative == InitNative /\ [][NextNative]_vars

\* The pixel modes normalize_buffer handles, the widths FreeType gives a
\* bitmap of each mode (Lcd widths are multiples of 3, Mono widths reach
\* into a second byte) and the bytes one of its rows takes.
PixelModes == {"Lcd", "LcdV", "Mono", "Gray", "Bgra"}

Widths(mode) ==
    IF mode = "Lcd" THEN {3 * w : w \in 1..MaxWidth}
    ELSE IF mode = "Mono" THEN (1..MaxWidth) \cup {8 + w : w \in 1..MaxWidth}
    ELSE 1..MaxWidth

\* The rows of a bitmap: an LcdV bitmap has three rows a pixel row, so its
\* rows reach into a third pixel row.
Rows(mode) == IF mode = "LcdV" THEN 1..(MaxRows + 3) ELSE 1..MaxRows

row_bytes(mode, width) ==
    IF mode = "Mono" THEN (width + 7) \div 8
    ELSE IF mode = "Bgra" THEN width * 4
    ELSE width

\* Buffer contents: byte i is seed + 37 * i modulo 256, so that the bytes
\* of one buffer all differ.
Seeds == {165}
Offsets == {-3, 5}

FtBitmap(mode, rows, width, pitch, seed, top, left) ==
    [pixel_mode |-> mode, rows |-> rows, width |-> width, pitch |-> pitch,
     buffer |-> [i \in 1..(rows * pitch) |-> (seed + 37 * (i - 1)) % 256],
     bitmap_top |-> top, bitmap_left |-> left]

Bitmaps ==
    {FtBitmap(mode, rows, width, row_bytes(mode, width) + pad * row_bytes(mode, 1),
              seed, top, left) :
        mode \in PixelModes, rows \in UNION {Rows(m) : m \in PixelModes},
        width \in UNION {Widths(m) : m \in PixelModes},
        pad \in 0..MaxPad, seed \in Seeds, top \in Offsets, left \in {2}}

\* The subpixel geometries, the strike sizes of the bitmap faces and the
\* fixup factors a face can carry.
Rgbas == {"Unknown", "Bgr", "Vbgr"}
Factors == {[num |-> n, den |-> Strike] : n \in 1..MaxRequest}
Advances == {<<-5, 3>>}

\* PatternRef::pixelsizefixupfactor of a bitmap font rendered against the
\* request: requested pixel size / strike size when Fontconfig scales
\* bitmap fonts, None (num = 0) when the user disabled that.
pixelsizefixupfactor(requested, strike, scaling) ==
    IF scaling THEN [num |-> requested, den |-> strike] ELSE [num |-> 0, den |-> 1]

\* The state after construction but for the glyph slot, which holds the
\* bitmap FreeType rendered.
Rendered(bitmaps) ==
    /\ backend = "ft"
    /\ faces = Empty
    /\ ft_faces = Empty
    /\ fallback_lists = Empty
    /\ device_pixel_ratio = 1
    /\ creation_timestamp = TRUE
    /\ fonts = Empty
    /\ keys = Empty
    /\ TOKEN = Usize(0)
    /\ result = NoResult
    /\ returned = Empty
    /\ first_key = Empty
    /\ clock = 0
    /\ reloads = {}
    /\ bitmap \in bitmaps
    /\ glyph = NoGlyph
    /\ size_held = 0
    /\ char_size = Empty

\* Self::normalize_buffer(&glyph.bitmap(), &face.rgba) and the
\* RasterizedGlyph get_glyph builds from it.
Normalize(rgba, advance) ==
    /\ glyph' = rasterized_glyph(normalize_buffer(bitmap, rgba), bitmap, advance)
    /\ result' = [NoResult EXCEPT !.op = "normalize_buffer", !.rgba = rgba]
    /\ UNCHANGED << backend, faces, ft_faces, fallback_lists, device_pixel_ratio,
                    creation_timestamp, fonts, keys, TOKEN, returned, first_key,
                    clock, reloads, bitmap, size_held, char_size >>

\* The normalizer applied to the bitmaps of every pixel mode.
InitNormalize ==
    Rendered({b \in Bitmaps : /\ b.width \in Widths(b.pixel_mode)
                              /\ b.rows \in Rows(b.pixel_mode)})

NextNormalize == \E rgba \in Rgbas, advance \in Advances : Normalize(rgba, advance)

SpecNormalize == InitNormalize /\ [][NextNormalize]_vars

\* downsample_bitmap(rasterized_glyph, fixup_factor)
Downsample(f) ==
    /\ glyph # NoGlyph
    /\ glyph' = downsample_bitmap(glyph, f)
    /\ result' = [NoResult EXCEPT !.op = "downsample_bitmap", !.factor = f]
    /\ UNCHANGED << backend, faces, ft_faces, fallback_lists, device_pixel_ratio,
                    creation_timestamp, fonts, keys, TOKEN, returned, first_key,
                    clock, reloads, bitmap, size_held, char_size >>

\* What get_glyph returns once the glyph is rendered: the error of
\* size_metrics comes after the test of the glyph index and only when the
\* face carries no fixup factor.
rendered_outcome(index, colored, fixup, size_ok) ==
    IF index = MISSING_GLYPH_INDEX THEN "MissingGlyph"
    ELSE IF colored /\ fixup.num = 0 /\ ~size_ok THEN "MetricsNotFound"
    ELSE "Ok"

\* FreeTypeRasterizer::get_glyph from the rendered glyph slot on, for a face
\* of the given properties.  A color bitmap face has the pixel size of its
\* strike (non_scalable) and the y_ppem of the strike load_ft_face selected.
Ft_get_glyph_rendered(index, colored, rgba, advance, requested, strike, scaling, size_ok) ==
    /\ \E fixup \in {pixelsizefixupfactor(requested, strike, scaling)} :
       \E outcome \in {rendered_outcome(index, colored, fixup, size_ok)} :
       \E g \in {rasterized_glyph(normalize_buffer(bitmap, rgba), bitmap, advance)} :
       \E f \in {fixup_factor([pixelsize_fixup_factor |-> fixup], strike, strike)} :
         /\ glyph' = IF outcome = "MetricsNotFound" THEN NoGlyph
                      ELSE IF outcome = "MissingGlyph" \/ ~colored THEN g
                      ELSE colored_glyph(g, f)
         /\ result' = [NoResult EXCEPT !.op = "get_glyph", !.outcome = outcome,
                          !.index = index, !.colored = colored,
                          !.requested = requested, !.strike = strike,
                          !.factor = f]
    /\ UNCHANGED << backend, faces, ft_faces, fallback_lists, device_pixel_ratio,
                    creation_timestamp, fonts, keys, TOKEN, returned, first_key,
                    clock, reloads, bitmap, size_held, char_size >>

\* get_glyph and the downsampler on the bitmaps FreeType renders from
\* gray and color bitmap glyphs.
InitBitmap ==
    Rendered({b \in Bitmaps : b.pixel_mode \in {"Gray", "Bgra"}
                               /\ b.width \in Widths(b.pixel_mode)
                               /\ b.rows \in Rows(b.pixel_mode)})

NextBitmap ==
    \/ \E f \in Factors : Downsample(f)
    \/ \E index \in {MISSING_GLYPH_INDEX, 1}, colored \in BOOLEAN, rgba \in {"Unknown"},
          advance \in Advances, requested \in 1..MaxRequest, strike \in {Strike},
          scaling \in BOOLEAN, size_ok \in BOOLEAN :
         Ft_get_glyph_rendered(index, colored, rgba, advance, requested, strike,
                               scaling, size_ok)

SpecBitmap == InitBitmap /\ [][NextBitmap]_vars

\* The f32 point sizes given to Size::new and, through Into<Size>, to the
\* operators: fractions of both signs, values past the range of i16, NaN
\* and the infinities.
Floats ==
    {[num |-> n, den |-> d] : n \in {-MaxPts, -1, 0, 1, 3, MaxPts}, d \in {1, 4}}
    \cup {NaN, Infinity, NegInfinity}

\* Size::new(size)
Size_new_call(pts) ==
    /\ size_held' = Size_new(pts)
    /\ result' = [NoResult EXCEPT !.op = "Size::new", !.pts = pts]
    /\ UNCHANGED << backend, faces, ft_faces, fallback_lists, device_pixel_ratio,
                    creation_timestamp, fonts, keys, TOKEN, returned, first_key,
                    clock, reloads, bitmap, glyph, char_size >>

\* impl Add for Size: Size::new(a) + b, b converted by Size::new
Size_add(a, b) ==
    /\ size_held' = saturating_add(Size_new(a), Size_new(b))
    /\ result' = [NoResult EXCEPT !.op = "Size::add", !.lhs = Size_new(a),
                     !.rhs = Size_new(b)]
    /\ UNCHANGED << backend, faces, ft_faces, fallback_lists, device_pixel_ratio,
                    creation_timestamp, fonts, keys, TOKEN, returned, first_key,
                    clock, reloads, bitmap, glyph, char_size >>

\* impl Mul for Size: Size::new(a) * b.  An i16 product out of range
\* panics in a build with overflow checks and wraps in one without.
Size_mul(a, b, overflow_checks) ==
    /\ \E product \in {Size_new(a) * Size_new(b)} :
       \E overflow \in {product # saturate(product)} :
         /\ size_held' = IF overflow /\ overflow_checks THEN size_held
                          ELSE wrapping_i16(product)
         /\ result' = [NoResult EXCEPT !.op = "Size::mul", !.lhs = Size_new(a),
                          !.rhs = Size_new(b),
                          !.outcome = IF overflow /\ overflow_checks THEN "Panic"
                                      ELSE "Ok"]
    /\ UNCHANGED << backend, faces, ft_faces, fallback_lists, device_pixel_ratio,
                    creation_timestamp, fonts, keys, TOKEN, returned, first_key,
                    clock, reloads, bitmap, glyph, char_size >>

\* Size::as_f32_pts of the Size held
Size_as_f32_pts ==
    /\ result.op \in {"Size::new", "Size::add", "Size::mul"}
    /\ result' = [result EXCEPT !.op = "Size::as_f32_pts", !.pts = as_f32_pts(size_held),
                                 !.lhs = size_held, !.rhs = 0]
    /\ UNCHANGED << backend, faces, ft_faces, fallback_lists, device_pixel_ratio,
                    creation_timestamp, fonts, keys, TOKEN, returned, first_key,
                    clock, reloads, bitmap, glyph, size_held, char_size >>

\* The operations of Size on the point sizes of Floats.
InitSize == Rendered({NoBitmap})

NextSize ==
    \/ \E pts \in Floats : Size_new_call(pts)
    \/ \E a \in Floats, b \in Floats : Size_add(a, b)
    \/ \E a \in Floats, b \in Floats, overflow_checks \in BOOLEAN :
         Size_mul(a, b, overflow_checks)
    \/ Size_as_f32_pts

SpecSize == InitSize /\ [][NextSize]_vars

\* ------------------------------------------------------------- properties
\* The last call was a FreeType glyph lookup (get_glyph or kerning) with a
\* key load_font returned; FtList is that key's fallback list and
\* FtPrimary the font of its primary face.
FtLookup ==
    /\ backend = "ft"
    /\ result.op \in {"get_glyph", "kerning"}
    /\ result.font_key \in DOMAIN fallback_lists

FtList == fallback_lists[result.font_key].list
FtPrimary == faces[result.font_key].font

\* C1: a load_font call whose descriptor and size were already loaded since
\* the last update_dpr succeeds with the FontKey the first of those calls
\* returned, whatever calls were made in between (the installed fonts being
\* the same throughout).
C1_LoadFontIdempotent ==
    (result.op = "load_font" /\ result.again) =>
        /\ result.outcome = "Ok"
        /\ result.key = first_key[<<result.desc, result.size>>]

\* A repeated load_font on a rasterizer whose cache has meanwhile gained
\* faces that no load_font returned (fallback faces loaded by lookups).
C1_Witness ==
    /\ result.op = "load_font"
    /\ result.again
    /\ result.outcome = "Ok"
    /\ \E k \in result.before : k \notin DOMAIN returned

\* C2: of two FontKey::next allocations made one after the other, the
\* second hands out the greater key (keys are strictly increasing).
C2_KeysStrictlyIncreasing ==
    [][(backend # "ft" /\ result.issued # NoKey /\ result'.issued # NoKey)
          => Less32(result.issued, result'.issued)]_vars

\* C3: every FontKey load_font has returned is still in the cache and maps
\* to the entry it mapped to when it was returned.
C3_ReturnedKeysStayLoaded ==
    \A k \in DOMAIN returned : k \in DOMAIN Cache /\ Cache[k] = returned[k]

\* Two keys were returned and a later lookup added a fallback face.
C3_Witness ==
    /\ Cardinality(DOMAIN returned) >= 2
    /\ result.op = "get_glyph"
    /\ result.inserted # {}

\* The keys of the fallback candidates of primary key p.
FallbackKeys(p) ==
    {fallback_lists[p].list[i].key : i \in 1..Len(fallback_lists[p].list)}

\* C4: a glyph lookup inserts at most one face; the face it inserts was not
\* in the cache before, belongs to a candidate of the requested key's
\* fallback list whose own charset has the character, and is the face the
\* lookup resolves to; faces already cached stay cached; load_font inserts
\* no face but the primary one, never a fallback candidate's.
C4_FallbackLoadedOnceLazily ==
    /\ (backend = "ft" /\ result.op \in {"get_glyph", "kerning"}) =>
          /\ Cardinality(result.inserted) <= 1
          /\ result.before \subseteq DOMAIN faces
          /\ DOMAIN faces = result.before \cup result.inserted
          /\ \A k \in result.inserted :
                /\ k \notin result.before
                /\ k = result.key
                /\ \E i \in 1..Len(FtList) :
                      /\ FtList[i].key = k
                      /\ HasCharset(FtList[i].pattern)
                      /\ result.ch \in get_charset(FtList[i].pattern)
    /\ (backend = "ft" /\ result.op = "load_font") =>
          /\ result.inserted \subseteq {result.key}
          /\ DOMAIN faces = result.before \cup result.inserted
          /\ \A p \in DOMAIN fallback_lists :
                result.inserted \cap FallbackKeys(p) = {}

\* A lookup resolved to a fallback candidate that an earlier lookup had
\* loaded, and loaded nothing.
C4_Witness ==
    /\ FtLookup
    /\ result.key # result.font_key
    /\ result.key \in result.before
    /\ result.inserted = {}

\* C5: when the primary face of the requested key has a glyph index for
\* the character, get_glyph resolves to the primary key with a single glyph
\* check and no fallback candidate visited, and the face cache has the
\* same entries after the call as before.
C5_PrimaryHitNoFallback ==
    /\ ( /\ backend = "ft"
         /\ result.op = "get_glyph"
         /\ result.font_key \in result.before
         /\ get_char_index(faces[result.font_key].font, result.ch)
               # MISSING_GLYPH_INDEX ) =>
          /\ result.key = result.font_key
          /\ result.checks = 1
          /\ result.walked = 0
          /\ result.inserted = {}
          /\ DOMAIN faces = result.before
    /\ ( /\ backend # "ft"
         /\ result.op = "get_glyph"
         /\ result.font_key \in result.before
         /\ get_char_index(fonts[result.font_key].font, result.ch)
               # MISSING_GLYPH_INDEX ) =>
          /\ result.index = get_char_index(fonts[result.font_key].font, result.ch)
          /\ DOMAIN fonts = result.before

\* The primary face has the glyph and so has a fallback candidate that the
\* coverage set announces.
C5_Witness ==
    /\ FtLookup
    /\ result.op = "get_glyph"
    /\ get_char_index(FtPrimary, result.ch) # MISSING_GLYPH_INDEX
    /\ result.ch \in fallback_lists[result.font_key].coverage
    /\ result.key = result.font_key

\* C6: whenever a glyph lookup resolves to a fallback key, that key's face
\* has a glyph for the character.
C6_ReturnedFallbackHasGlyph ==
    (FtLookup /\ result.key # result.font_key) =>
        get_char_index(faces[result.key].font, result.ch) # MISSING_GLYPH_INDEX

\* C7: when the primary face lacks the character and the character is not
\* in the fallback list's coverage set, the lookup resolves to the primary
\* key and loads no face.
C7_UncoveredCharKeepsPrimary ==
    ( /\ FtLookup
      /\ get_char_index(FtPrimary, result.ch) = MISSING_GLYPH_INDEX
      /\ result.ch \notin fallback_lists[result.font_key].coverage ) =>
        /\ result.key = result.font_key
        /\ result.inserted = {}
        /\ DOMAIN faces = result.before

\* The uncovered character is one a loaded fallback face does have.
C7_Witness ==
    /\ FtLookup
    /\ get_char_index(FtPrimary, result.ch) = MISSING_GLYPH_INDEX
    /\ result.ch \notin fallback_lists[result.font_key].coverage
    /\ \E i \in 1..Len(FtList) :
          /\ FtList[i].key \in DOMAIN faces
          /\ get_char_index(FtList[i].pattern.font, result.ch) # MISSING_GLYPH_INDEX
    /\ result.key = result.font_key

\* The fonts get_glyph may take the glyph from: the primary font followed
\* by its fallbacks.
GlyphChain ==
    IF backend = "ft"
    THEN <<FtPrimary>> \o [i \in 1..Len(FtList) |-> FtList[i].pattern.font]
    ELSE <<fonts[result.font_key].font>> \o fonts[result.font_key].fallbacks

\* C8: when neither the primary font nor any fallback font has a glyph for
\* the character, get_glyph resolves to the primary key and does not
\* return a glyph as success.
C8_NoGlyphFallsBackToPrimary ==
    ( /\ backend \in {"ft", "ct"}
      /\ result.op = "get_glyph"
      /\ result.font_key \in DOMAIN Cache
      /\ \A i \in 1..Len(GlyphChain) : result.ch \notin SysFont(GlyphChain[i]).glyphs ) =>
        /\ result.key = result.font_key
        /\ result.outcome # "Ok"

\* C9: a glyph lookup makes at most len(fallback list) + 1 glyph-index
\* checks and visits at most len(fallback list) candidates.
C9_BoundedChecks ==
    FtLookup =>
        /\ result.checks <= Len(FtList) + 1
        /\ result.walked <= Len(FtList)

\* The bound is met: the primary face and every candidate were checked.
C9_Witness ==
    /\ FtLookup
    /\ Len(FtList) >= 1
    /\ result.checks = Len(FtList) + 1

\* C10: a get_glyph that returns a glyph returns it in the MissingGlyph
\* error exactly when the face it resolved to has glyph index 0 for the
\* character, that error's glyph is the one for the requested character,
\* and with any other index the glyph is returned as success.
C10_MissingGlyphIffIndexZero ==
    ( /\ result.op = "get_glyph"
      /\ result.outcome \in {"Ok", "MissingGlyph"} ) =>
        /\ (result.outcome = "MissingGlyph") <=> (result.index = MISSING_GLYPH_INDEX)
        /\ (result.outcome = "MissingGlyph") => (result.character = result.ch)

\* C11: metrics is a pure read: it leaves the face cache as it was and
\* changes no state of any native face (it sets no character size and
\* overwrites no glyph slot).
C11_MetricsPureRead ==
    (backend = "ft" /\ result.op = "metrics") =>
        /\ DOMAIN faces = result.before
        /\ result.sized = {}
        /\ result.slots = {}

\* C11, amended: a metrics call changes no cache (faces, native handles,
\* fallback lists, fonts, keys) and no device pixel ratio and sets no
\* character size; the only native state it touches is the glyph slot of
\* the face it measures, into which it loads the glyph of '0'.
C11_MetricsKeepsCaches ==
    [][(result'.op = "metrics") =>
          /\ faces' = faces
          /\ ft_faces' = ft_faces
          /\ fallback_lists' = fallback_lists
          /\ fonts' = fonts
          /\ keys' = keys
          /\ device_pixel_ratio' = device_pixel_ratio
          /\ result'.sized = {}
          /\ \A h \in result'.slots :
                /\ result'.font_key \in DOMAIN faces
                /\ h = faces[result'.font_key].ft_face]_vars

\* metrics measured a face of a rasterizer that holds several faces, and
\* loaded a glyph into its slot.
C11_Witness ==
    /\ backend = "ft"
    /\ result.op = "metrics"
    /\ result.outcome = "Ok"
    /\ result.slots # {}
    /\ Cardinality(DOMAIN faces) >= 2

\* C12: metrics and get_glyph called with a FontKey the rasterizer does
\* not know return the UnknownFontKey error and leave the cache as it was.
C12_UnknownKeyIsAnError ==
    ( /\ result.op \in {"metrics", "get_glyph"}
      /\ result.font_key \notin DOMAIN returned ) =>
        /\ result.outcome = "UnknownFontKey"
        /\ DOMAIN Cache = result.before

\* C13: kerning never fails, whatever GlyphKeys it is given: it returns a
\* pair, and the pair is (0, 0) when the resolved font has no kerning
\* tables or the backend exposes no kerning.
C13_KerningNeverFails ==
    (result.op = "kerning") =>
        /\ result.outcome = "Ok"
        /\ ( \/ backend # "ft"
             \/ ~SysFont(faces[result.key].font).kern ) => result.kerning = <<0, 0>>

\* C14: update_dpr changes no cache entry, and the pixel size at which
\* get_glyph rasterizes a glyph of a face loaded before the update is the
\* same after the update as before it.
C14_UpdateDprNotRetroactive ==
    [][(backend = "ft" /\ result'.op = "update_dpr") =>
          /\ faces' = faces
          /\ ft_faces' = ft_faces
          /\ fallback_lists' = fallback_lists
          /\ \A k \in DOMAIN faces : \A size \in Sizes :
                glyph_pixelsize(faces[k], size, device_pixel_ratio')
                   = glyph_pixelsize(faces[k], size, device_pixel_ratio)]_vars

\* C15: the font-configuration refresh runs only in load_font, never
\* before RELOAD_DELAY has elapsed since construction, and at most once in
\* each interval of RELOAD_DELAY seconds counted from construction.
C15_RefreshOncePerInterval ==
    [][(result'.op = "load_font" /\ result'.reloaded) =>
          /\ clock > RELOAD_DELAY
          /\ \A t \in reloads :
                t \div RELOAD_DELAY # clock \div RELOAD_DELAY]_vars

\* C15, amended: the refresh runs only at the start of a load_font call and
\* never before more than RELOAD_DELAY seconds have elapsed since
\* construction; once it has run, it runs again in every load_font call.
C15_RefreshDelayedThenAlways ==
    [][/\ (reloads' # reloads) =>
             /\ result'.op = "load_font"
             /\ result'.reloaded
       /\ \A t \in reloads' : t > RELOAD_DELAY
       /\ (result'.op = "load_font" /\ clock <= RELOAD_DELAY) => ~result'.reloaded
       /\ (result'.op = "load_font" /\ reloads # {}) => result'.reloaded]_vars

\* load_font refreshed the configuration at two different times.
C15_Witness ==
    /\ result.op = "load_font"
    /\ result.reloaded
    /\ Cardinality(reloads) >= 2

\* The descriptors no native face matches: fontconfig sorts no font for
\* them, or no descriptor of the family has the requested style.
NoNativeMatch(desc) ==
    IF backend = "ft" THEN font_sort(desc) = <<>>
    ELSE IF backend = "ct" THEN Ct_get_font(desc).font = 0
    ELSE Dw_find_font(desc) = 0

C17_DownsampleIdentity ==
    [][/\ (/\ result'.op = "downsample_bitmap"
           /\ (glyph.buffer.kind = "Rgb" \/ result'.factor.num >= result'.factor.den))
          => glyph' = glyph
       /\ (/\ result'.op = "get_glyph"
           /\ result'.outcome = "Ok"
           /\ (bitmap.pixel_mode = "Gray" \/ result'.factor.num >= result'.factor.den))
          => /\ glyph'.buffer = normalize_buffer(bitmap, "Unknown").buffer
             /\ glyph'.width = bitmap.width
             /\ glyph'.height = bitmap.rows
             /\ glyph'.top = bitmap.bitmap_top
             /\ glyph'.left = bitmap.bitmap_left]_vars

\* The downsampler was given an Rgba glyph of more than one pixel and a
\* factor above 1.0, and returned it as it was.
C17_Witness ==
    /\ result.op = "downsample_bitmap"
    /\ result.factor.num > result.factor.den
    /\ glyph.buffer.kind = "Rgba"
    /\ glyph.width > 1
    /\ glyph.height > 1
    /\ Len(glyph.buffer.bytes) = glyph.width * glyph.height * 4

\* C18: get_glyph for a color bitmap face whose strike is twice the
\* requested pixel size, the native bitmap being strike x strike pixels,
\* returns an Rgba glyph whose width and height are the requested pixel
\* size and whose buffer holds width * height * 4 bytes.
C18_ColorGlyphAtRequestedSize ==
    (/\ result.op = "get_glyph"
     /\ result.outcome = "Ok"
     /\ result.colored
     /\ result.strike = 2 * result.requested
     /\ bitmap.pixel_mode = "Bgra"
     /\ bitmap.rows = result.strike
     /\ bitmap.width = result.strike)
    => /\ glyph.buffer.kind = "Rgba"
       /\ glyph.width = result.requested
       /\ glyph.height = result.requested
       /\ Len(glyph.buffer.bytes) = glyph.width * glyph.height * 4

\* The normalizer was applied to the bitmap of the given pixel mode.
Normalized(mode) ==
    /\ result.op = "normalize_buffer"
    /\ bitmap.pixel_mode = mode

\* Channel c of the pixel at (row, col) of the normalized glyph, of
\* `channels` bytes a pixel.
Channel(row, col, c, channels) ==
    at(glyph.buffer.bytes, (row * glyph.width + col) * channels + c)

\* C19: for Mono and Gray bitmaps the normalizer returns an Rgb buffer of
\* rows x width pixels in row-major order whose three channel bytes are
\* equal: for Gray the source byte at row * pitch + col, for Mono 255 times
\* bit (7 - col mod 8) of the byte at row * pitch + col div 8.
C19_MonoGrayNormalized ==
    (Normalized("Mono") \/ Normalized("Gray")) =>
       /\ glyph.buffer.kind = "Rgb"
       /\ glyph.height = bitmap.rows
       /\ glyph.width = bitmap.width
       /\ Len(glyph.buffer.bytes) = bitmap.rows * bitmap.width * 3
       /\ \A row \in 0..(bitmap.rows - 1), col \in 0..(bitmap.width - 1), c \in 0..2 :
            Channel(row, col, c, 3) =
              IF bitmap.pixel_mode = "Gray"
              THEN at(bitmap.buffer, row * bitmap.pitch + col)
              ELSE 255 * ((at(bitmap.buffer, row * bitmap.pitch + (col \div 8))
                           \div (2 ^ (7 - (col % 8)))) % 2)

\* The normalizer was applied to a Mono bitmap of several rows whose rows
\* take more than one byte and are padded.
C19_Witness ==
    /\ Normalized("Mono")
    /\ bitmap.rows > 1
    /\ bitmap.width > 8
    /\ bitmap.pitch > row_bytes("Mono", bitmap.width)
    /\ Len(glyph.buffer.bytes) = bitmap.rows * bitmap.width * 3

\* C20: for a Bgra bitmap the normalizer returns an Rgba buffer of rows x
\* width pixels in which the pixel at (row, col) is the source pixel at
\* row * pitch + col * 4 with its bytes reordered from B,G,R,A to R,G,B,A.
C20_BgraNormalized ==
    Normalized("Bgra") =>
       /\ glyph.buffer.kind = "Rgba"
       /\ glyph.height = bitmap.rows
       /\ glyph.width = bitmap.width
       /\ Len(glyph.buffer.bytes) = bitmap.rows * bitmap.width * 4
       /\ \A row \in 0..(bitmap.rows - 1), col \in 0..(bitmap.width - 1) :
            /\ Channel(row, col, 0, 4) = at(bitmap.buffer, row * bitmap.pitch + col * 4 + 2)
            /\ Channel(row, col, 1, 4) = at(bitmap.buffer, row * bitmap.pitch + col * 4 + 1)
            /\ Channel(row, col, 2, 4) = at(bitmap.buffer, row * bitmap.pitch + col * 4)
            /\ Channel(row, col, 3, 4) = at(bitmap.buffer, row * bitmap.pitch + col * 4 + 3)

\* The characters the candidate's own pattern declares, none when it
\* reports no coverage.
Declared(fallback_font) ==
    IF HasCharset(fallback_font.pattern) THEN get_charset(fallback_font.pattern)
    ELSE {}

\* C21: the coverage of every FallbackList is the union of the declared
\* coverage of its candidates, a candidate without reported coverage
\* contributing nothing: every character a candidate declares is in it and
\* every character in it is declared by some candidate.
C21_CoverageIsUnionOfCandidates ==
    \A k \in DOMAIN fallback_lists :
       /\ \A i \in 1..Len(fallback_lists[k].list) :
            Declared(fallback_lists[k].list[i]) \subseteq fallback_lists[k].coverage
       /\ \A ch \in fallback_lists[k].coverage :
            \E i \in 1..Len(fallback_lists[k].list) :
               ch \in Declared(fallback_lists[k].list[i])

\* A fallback list whose candidates include one without reported coverage
\* and two that declare different characters.
C21_Witness ==
    \E k \in DOMAIN fallback_lists :
       /\ \E i \in 1..Len(fallback_lists[k].list) :
            ~HasCharset(fallback_lists[k].list[i].pattern)
       /\ \E i, j \in 1..Len(fallback_lists[k].list) :
            /\ Declared(fallback_lists[k].list[i]) # {}
            /\ Declared(fallback_lists[k].list[j]) # {}
            /\ Declared(fallback_lists[k].list[i]) # Declared(fallback_lists[k].list[j])
       /\ faces[k].font \notin {fallback_lists[k].list[i].pattern.font :
                                   i \in 1..Len(fallback_lists[k].list)}

\* C22: once a FallbackList is stored for a primary FontKey, no operation
\* changes its candidates, their order, their keys or its coverage, and no
\* operation removes or changes a face or a native handle already cached:
\* faces are only added.
C22_FallbackListsAreStable ==
    [][/\ \A k \in DOMAIN fallback_lists :
            /\ k \in DOMAIN fallback_lists'
            /\ fallback_lists'[k] = fallback_lists[k]
       /\ \A k \in DOMAIN faces :
            /\ k \in DOMAIN faces'
            /\ faces'[k] = faces[k]
       /\ \A loc \in DOMAIN ft_faces :
            /\ loc \in DOMAIN ft_faces'
            /\ ft_faces'[loc] = ft_faces[loc]]_vars

\* get_glyph with a key that has a fallback list loaded the face of one of
\* its candidates, after a second primary font had been loaded.
C22_Witness ==
    /\ result.op = "get_glyph"
    /\ result.font_key \in DOMAIN fallback_lists
    /\ result.inserted # {}
    /\ Cardinality(DOMAIN fallback_lists) >= 2

\* The file (path, index) the face cached under key k was loaded from.
FaceLocation(k) == ft_face_location([font |-> faces[k].font])

\* C23: every cached face holds the one native handle cached for its file,
\* so FontKeys whose faces come from the same file share a handle; no two
\* files share a handle; and each FontKey keeps the properties of the
\* pattern it was loaded from.
C23_OneHandlePerFile ==
    /\ \A k \in DOMAIN faces :
         /\ FaceLocation(k) \in DOMAIN ft_faces
         /\ faces[k].ft_face = ft_faces[FaceLocation(k)]
         /\ \E desc \in Descs :
              k = pattern_key(desc, faces[k].px, faces[k].font)
    /\ \A k1, k2 \in DOMAIN faces :
         FaceLocation(k1) = FaceLocation(k2) => faces[k1].ft_face = faces[k2].ft_face
    /\ \A l1, l2 \in DOMAIN ft_faces :
         ft_faces[l1] = ft_faces[l2] => l1 = l2
    /\ Cardinality({ft_faces[l] : l \in DOMAIN ft_faces}) = Cardinality(DOMAIN ft_faces)

\* Two FontKeys loaded for different pixel sizes hold faces of the same
\* file, and with them the same handle.
C23_Witness ==
    \E k1, k2 \in DOMAIN faces :
       /\ k1 # k2
       /\ FaceLocation(k1) = FaceLocation(k2)
       /\ faces[k1].px # faces[k2].px
       /\ faces[k1].ft_face = faces[k2].ft_face
       /\ Cardinality(DOMAIN ft_faces) >= 2

\* C24: every Size value, built by Size::new or produced by adding or
\* multiplying Sizes, lies in the supported range and is not negative, and
\* as_f32_pts returns the point size that was stored, up to the
\* fixed-point step of 1 / Size::factor().
C24_SizeClampedNonNegative ==
    /\ size_held \in 0..I16Max
    /\ result.op = "Size::as_f32_pts" =>
         /\ result.pts.num >= 0
         /\ Size_new(result.pts) = size_held
    /\ (/\ result.op = "Size::new"
        /\ result.pts.den > 0
        /\ result.pts.num >= 0
        /\ result.pts.num * Size_factor <= I16Max * result.pts.den)
       => /\ as_f32_pts(size_held).num * result.pts.den
               <= result.pts.num * as_f32_pts(size_held).den
          /\ result.pts.num * as_f32_pts(size_held).den
               < (as_f32_pts(size_held).num + 1) * result.pts.den

\* round(i / f): the integer nearest to i / f, halves rounded up.
Rounded(i, f) ==
    CHOOSE r \in 0..(i * f.den + 1) :
       /\ 2 * f.num * r <= 2 * i * f.den + f.num
       /\ 2 * i * f.den + f.num < 2 * f.num * (r + 1)

\* The source pixels of destination pixel (i, j): rows
\* [round(i/f), round((i+1)/f)) and columns [round(j/f), round((j+1)/f)).
SourcePixels(i, j, f) ==
    (Rounded(i, f)..(Rounded(i + 1, f) - 1)) \X (Rounded(j, f)..(Rounded(j + 1, f) - 1))

\* The sum of channel c of glyph g over the pixels of S.
RECURSIVE ChannelSum(_, _, _)
ChannelSum(g, S, c) ==
    IF S = {} THEN 0
    ELSE at(g.buffer.bytes, ((CHOOSE p \in S : TRUE)[1] * g.width
                             + (CHOOSE p \in S : TRUE)[2]) * 4 + c)
         + ChannelSum(g, S \ {CHOOSE p \in S : TRUE}, c)

\* C25: for an Rgba glyph and a factor f < 1 the downsampler returns
\* floor(width * f) x floor(height * f) pixels, pixel (i, j) holding for
\* each channel the truncated average of the source pixels in rows
\* [round(i/f), round((i+1)/f)) and columns [round(j/f), round((j+1)/f)),
\* and top and left scaled by f (truncated toward zero).
C25_DownsampleAverages ==
    [][(/\ result'.op = "downsample_bitmap"
        /\ glyph.buffer.kind = "Rgba"
        /\ result'.factor.num < result'.factor.den)
       => /\ glyph'.buffer.kind = "Rgba"
          /\ glyph'.width = (glyph.width * result'.factor.num) \div result'.factor.den
          /\ glyph'.height = (glyph.height * result'.factor.num) \div result'.factor.den
          /\ Len(glyph'.buffer.bytes) = glyph'.width * glyph'.height * 4
          /\ glyph'.top = trunc(glyph.top * result'.factor.num, result'.factor.den)
          /\ glyph'.left = trunc(glyph.left * result'.factor.num, result'.factor.den)
          /\ \A i \in 0..(glyph'.height - 1), j \in 0..(glyph'.width - 1), c \in 0..3 :
               /\ SourcePixels(i, j, result'.factor) # {}
               /\ at(glyph'.buffer.bytes, (i * glyph'.width + j) * 4 + c)
                    = ChannelSum(glyph, SourcePixels(i, j, result'.factor), c)
                      \div Cardinality(SourcePixels(i, j, result'.factor))]_vars

\* The downsampler halved or quartered an Rgba glyph to one of several
\* pixels a side, each the average of several source pixels.
C25_Witness ==
    /\ result.op = "downsample_bitmap"
    /\ 2 * result.factor.num <= result.factor.den
    /\ glyph.buffer.kind = "Rgba"
    /\ glyph.width >= 2
    /\ glyph.height >= 2
    /\ glyph.top # 0

\* C26: for an Lcd bitmap the normalizer returns an Rgb buffer of rows rows
\* of width / 3 pixels, 3 * (width / 3) * rows bytes, pixel (row, col)
\* holding the source bytes at row * pitch + 3 * col, + 1 and + 2, the first
\* and the third swapped exactly when the subpixel geometry is Bgr.
C26_LcdNormalized ==
    Normalized("Lcd") =>
       /\ glyph.buffer.kind = "Rgb"
       /\ glyph.height = bitmap.rows
       /\ glyph.width = bitmap.width \div 3
       /\ Len(glyph.buffer.bytes) = 3 * (bitmap.width \div 3) * bitmap.rows
       /\ \A row \in 0..(bitmap.rows - 1), col \in 0..((bitmap.width \div 3) - 1),
             c \in 0..2 :
            Channel(row, col, c, 3) =
              at(bitmap.buffer, row * bitmap.pitch + 3 * col
                                + (IF result.rgba = "Bgr" THEN 2 - c ELSE c))

\* The normalizer was applied under the Bgr geometry to an Lcd bitmap of
\* several padded rows of several pixels.
C26_Witness ==
    /\ Normalized("Lcd")
    /\ result.rgba = "Bgr"
    /\ bitmap.rows > 1
    /\ bitmap.width >= 6
    /\ bitmap.pitch > bitmap.width
    /\ glyph.width = bitmap.width \div 3

\* C27: for an LcdV bitmap the normalizer returns an Rgb buffer of rows / 3
\* rows of width pixels, pixel (i, j) holding the bytes of column j of the
\* source rows 3i, 3i + 1, 3i + 2, in the reverse order exactly when the
\* subpixel geometry is Vbgr; the source rows past 3 * (rows / 3) are not
\* read.
C27_LcdVNormalized ==
    Normalized("LcdV") =>
       /\ glyph.buffer.kind = "Rgb"
       /\ glyph.height = bitmap.rows \div 3
       /\ glyph.width = bitmap.width
       /\ Len(glyph.buffer.bytes) = (bitmap.rows \div 3) * bitmap.width * 3
       /\ \A i \in 0..((bitmap.rows \div 3) - 1), j \in 0..(bitmap.width - 1),
             k \in 0..2 :
            Channel(i, j, k, 3) =
              at(bitmap.buffer,
                 (3 * i + (IF result.rgba = "Vbgr" THEN 2 - k ELSE k)) * bitmap.pitch + j)

\* The normalizer was applied under the Vbgr geometry to an LcdV bitmap of
\* two pixel rows and a source row too many, padded.
C27_Witness ==
    /\ Normalized("LcdV")
    /\ result.rgba = "Vbgr"
    /\ bitmap.rows \div 3 = 2
    /\ bitmap.rows % 3 # 0
    /\ bitmap.width > 1
    /\ bitmap.pitch > bitmap.width
    /\ glyph.height = 2

\* What face_for_glyph would resolve key k and character ch to in the
\* current state.
WouldResolve(k, ch) ==
    face_for_glyph([faces |-> faces, ft_faces |-> ft_faces], fallback_lists, k, ch)

\* C28: every primary FontKey with a FallbackList has a loaded face, and
\* for every FontKey load_font returned and every character face_for_glyph
\* resolves to a key of the face cache, so that get_glyph and kerning with
\* such a key find their face.
C28_ResolvedKeyIsCached ==
    /\ DOMAIN fallback_lists \subseteq DOMAIN faces
    /\ backend = "ft" =>
         \A k \in DOMAIN returned, ch \in Chars :
            /\ WouldResolve(k, ch).res = "Ok"
            /\ WouldResolve(k, ch).key \in DOMAIN WouldResolve(k, ch).loader.faces
    /\ (/\ backend = "ft"
        /\ result.op \in {"get_glyph", "kerning"}
        /\ result.font_key \in DOMAIN returned)
       => /\ result.outcome # "Panic"
          /\ result.key \in DOMAIN faces

\* get_glyph with a key load_font returned resolved to a fallback key whose
\* face it loaded.
C28_Witness ==
    /\ backend = "ft"
    /\ result.op = "get_glyph"
    /\ result.font_key \in DOMAIN returned
    /\ result.key # result.font_key
    /\ result.key \in result.inserted
    /\ result.key \in DOMAIN faces

\* C29: for an Rgba glyph whose buffer holds width * height * 4 bytes and a
\* factor f with 0 < f < 1 the downsampler does not panic: every
\* destination pixel covers at least one source pixel, so that the average
\* never divides by zero, and every source index read lies inside the
\* source buffer.
C29_DownsampleStaysInBounds ==
    [][(/\ result'.op = "downsample_bitmap"
        /\ glyph.buffer.kind = "Rgba"
        /\ Len(glyph.buffer.bytes) = glyph.width * glyph.height * 4
        /\ 0 < result'.factor.num
        /\ result'.factor.num < result'.factor.den)
       => /\ glyph'.buffer.kind = "Rgba"
          /\ \A i \in 0..(((glyph.height * result'.factor.num) \div result'.factor.den) - 1),
                j \in 0..(((glyph.width * result'.factor.num) \div result'.factor.den) - 1) :
               /\ pixels_picked(source_start(i, result'.factor),
                                source_start(i + 1, result'.factor),
                                source_start(j, result'.factor),
                                source_start(j + 1, result'.factor)) >= 1
               /\ SourcePixels(i, j, result'.factor) # {}
               /\ \A p \in SourcePixels(i, j, result'.factor), c \in 0..3 :
                    /\ p[1] < glyph.height
                    /\ p[2] < glyph.width
                    /\ (p[1] * glyph.width + p[2]) * 4 + c < Len(glyph.buffer.bytes)]_vars

\* The downsampler scaled an unpadded color bitmap glyph by a factor
\* between 1/2 and 1, whose step is not a whole number of pixels, to
\* several pixels a side.
C29_Witness ==
    /\ result.op = "downsample_bitmap"
    /\ result.factor.num < result.factor.den
    /\ 2 * result.factor.num > result.factor.den
    /\ bitmap.pixel_mode = "Bgra"
    /\ bitmap.pitch = 4 * bitmap.width
    /\ glyph.buffer.kind = "Rgba"
    /\ glyph.width >= 2
    /\ glyph.height >= 2
    /\ Len(glyph.buffer.bytes) = glyph.width * glyph.height * 4

\* What metrics reads for key k when the native faces have the sizes
\* `sizes`.
MetricsRead(sizes, k) == size_metrics(sizes, faces[k].ft_face)

\* C30: the result of metrics for a loaded FontKey depends only on that
\* key's own face and load-time size: a get_glyph call made with another
\* FontKey, or at another pixel size than the key was loaded at, leaves
\* what metrics reads for the key as it was, also when the two keys share
\* a native handle.
C30_MetricsIndependentOfOtherGlyphs ==
    [][(backend = "ft" /\ result'.op = "get_glyph")
       => \A k \in DOMAIN returned \cap DOMAIN faces :
             (\/ result'.font_key # k
              \/ result'.pixelsize # faces[k].px)
             => MetricsRead(char_size', k) = MetricsRead(char_size, k)]_vars

====
